---- MODULE Spec2Model ----
(***************************************************************************)
(* Appointments page of the appointments application: the appointment      *)
(* mapper of services/appointments.ts, the remote record client of         *)
(* services/airtable.ts, and the page controller of pages/HomePage.vue     *)
(* with its filter toolbar, and the create and edit forms of the modal.    *)
(*                                                                         *)
(* Strings are sequences of one-character strings, so that toLowerCase and *)
(* includes are computed.  An ISO-8601 UTC timestamp is the pair           *)
(* <<day, msOfDay>>; the value of a date input ("YYYY-MM-DD") is <<day>>   *)
(* and the empty string is <<>>.  Instants are milliseconds.               *)
(***************************************************************************)
EXTENDS Integers, Sequences, FiniteSets, TLC

VARIABLES
    configured,       \* VITE_AIRTABLE_BASE_ID is set
    tz,               \* local time minus UTC, in ms (the browser's time zone)
    now,              \* wall clock, ms
    store,            \* remote Appointments table: a sequence of pages of records
    agents,           \* HomePage: agents
    agentsLoaded,     \* the components whose `await listAgents()` has resolved
    toolbarAgents,    \* FilterToolbar: agents (the avatars that can be toggled)
    allAppointments,  \* HomePage: allAppointments (the cache)
    appointments,     \* HomePage: appointments (the visible page)
    loading,          \* HomePage: loading
    currentPage,      \* HomePage: currentPage
    totalPages,       \* HomePage: totalPages
    totalItems,       \* HomePage: totalItems
    filters,          \* HomePage: filters (v-model of the toolbar)
    searchTimeout,    \* FilterToolbar: a debounce timer is pending
    fetch,            \* the listAppointments call of fetchAllAppointments
    related,          \* pending listAppointments calls of loadRelatedAppointments
    writes,           \* pending createAppointment / updateAppointment calls
    editing,          \* HomePage: editingAppointment (<<>> when the modal is closed)
    sent,             \* number of HTTP requests the last step sent to the store
    nWrites,          \* number of create / update submissions so far
    applied,          \* the filters, agents and page of the last recomputation,
                      \* and whether it repeated the one before on the same cache
    mappedAt,         \* the clock when the cache was last mapped from records
    form              \* the open CreateAppointmentForm / EditAppointmentForm

vars == <<configured, tz, now, store, agents, agentsLoaded, toolbarAgents,
          allAppointments, appointments, loading, currentPage, totalPages,
          totalItems, filters, searchTimeout, fetch, related, writes, editing,
          sent, nWrites, applied, mappedAt, form>>

----------------------------------------------------------------------------
(* Time *)

HourMs == 60 * 60 * 1000
DayMs == 24 * HourMs

Min(a, b) == IF a < b THEN a ELSE b
Max(a, b) == IF a > b THEN a ELSE b

\* new Date("....Z").getTime() of an ISO UTC timestamp
ParseISO(iso) == iso[1] * DayMs + iso[2]

\* Date.prototype.toISOString
ToISOString(t) == <<t \div DayMs, t % DayMs>>

\* new Date("YYYY-MM-DD"): a date-only string is parsed as midnight UTC
ParseDateOnly(d) == d[1] * DayMs

\* Date.prototype.setHours(23, 59, 59, 999): the end of the LOCAL day that
\* holds instant t, in a zone `zone` ms ahead of UTC
SetHoursEndOfDay(t, zone) ==
    ((t + zone) \div DayMs) * DayMs + (DayMs - 1) - zone

----------------------------------------------------------------------------
(* Strings *)

Undefined == <<"undefined">>

\* JavaScript truthiness of a string-or-undefined value
Truthy(s) == s # Undefined /\ s # <<>>

\* JavaScript truthiness of a value that is always a string
NonEmpty(s) == Len(s) > 0

LowerChar(c) ==
    CASE c = "A" -> "a" [] c = "B" -> "b" [] c = "E" -> "e" [] c = "L" -> "l"
      [] c = "N" -> "n" [] c = "O" -> "o" [] c = "U" -> "u"
      [] OTHER -> c

\* String.prototype.toLowerCase
ToLowerCase(s) == [i \in 1..Len(s) |-> LowerChar(s[i])]

\* String.prototype.includes
Includes(s, t) ==
    \E i \in 0..(Len(s) - Len(t)) : SubSeq(s, i + 1, i + Len(t)) = t

\* Array.prototype.slice(start, end) for 0 <= start <= end
Slice(s, start, end) == SubSeq(s, start + 1, Min(end, Len(s)))

----------------------------------------------------------------------------
(* Sequences *)

\* Before with the direction ignored: newest first always
BeforeNewestFirst(a, b, descending) == ParseISO(a.date) > ParseISO(b.date)

\* the comparator of the two date sorts: a goes strictly before b
Before(a, b, descending) ==
    IF descending THEN ParseISO(a.date) > ParseISO(b.date)
    ELSE ParseISO(a.date) < ParseISO(b.date)

\* Array.prototype.sort with a date comparator: a stable sort
RECURSIVE SortByDate(_, _)
SortByDate(s, descending) ==
    IF s = <<>> THEN <<>>
    ELSE LET rest == SortByDate(SubSeq(s, 1, Len(s) - 1), descending)
             x == s[Len(s)]
             k == Cardinality({i \in 1..Len(rest) : ~Before(x, rest[i], descending)})
         IN  SubSeq(rest, 1, k) \o <<x>> \o SubSeq(rest, k + 1, Len(rest))

\* Math.ceil(n / d) for n >= 0, d > 0
CeilDiv(n, d) == (n + d - 1) \div d

----------------------------------------------------------------------------
(* services/agents.ts *)

\* `${name} ${surname}`.trim() of two trimmed strings
FullName(name, surname) ==
    IF surname = <<>> THEN name
    ELSE IF name = <<>> THEN surname
    ELSE name \o <<" ">> \o surname

\* listAgents: raw Agents records to Agent objects
MapAgents(records) ==
    [i \in 1..Len(records) |->
        [id |-> records[i].id,
         fullName |-> FullName(records[i].agent_name, records[i].agent_surname)]]

----------------------------------------------------------------------------
(* services/appointments.ts: listAppointments, the record mapper *)

\* a raw record is {id, fields}: `keys` are the names present in fields, and
\* the record holds a value for every name (unused when the name is absent)
Has(r, k) == k \in r.keys

UnknownAgent == <<"U","n","k","n","o","w","n"," ","A","g","e","n","t">>
NoId == "undefined"

\* DeriveStatus with a date equal to the clock counted as past
DeriveStatusLax(r, t) ==
    IF Has(r, "is_cancelled") /\ r.is_cancelled = TRUE THEN "Cancelled"
    ELSE IF Has(r, "appointment_date") /\ ParseISO(r.appointment_date) <= t
         THEN "Completed"
         ELSE "Upcoming"

\* the status derived from the cancelled flag, the date and the clock
DeriveStatus(r, t) ==
    IF Has(r, "is_cancelled") /\ r.is_cancelled = TRUE THEN "Cancelled"
    ELSE IF Has(r, "appointment_date") /\ ParseISO(r.appointment_date) < t
         THEN "Completed"
         ELSE "Upcoming"

\* the agents of a record: ids paired with names by position
MapRecordAgents(r) ==
    IF ~Has(r, "agent_id") THEN <<>>
    ELSE [i \in 1..Len(r.agent_id) |->
            [id |-> r.agent_id[i],
             name |-> IF Has(r, "agent_name") /\ i <= Len(r.agent_name)
                         /\ NonEmpty(r.agent_name[i])
                      THEN r.agent_name[i]
                      ELSE UnknownAgent]]

\* one raw record to one AppointmentListItem, at clock t
MapRecord(r, t) ==
    [id |-> r.id,
     status |-> DeriveStatus(r, t),
     date |-> IF Has(r, "appointment_date") THEN r.appointment_date
              ELSE ToISOString(t),
     address |-> IF Has(r, "appointment_address") THEN r.appointment_address
                 ELSE <<>>,
     contact |->
        [id |-> IF Has(r, "contact_id") /\ Len(r.contact_id) > 0
                THEN r.contact_id[1] ELSE NoId,
         name |-> IF Has(r, "contact_name") /\ Len(r.contact_name) > 0
                  THEN r.contact_name[1] ELSE <<>>,
         email |-> IF Has(r, "contact_email") /\ Len(r.contact_email) > 0
                   THEN r.contact_email[1] ELSE Undefined,
         phone |-> IF Has(r, "contact_phone") THEN r.contact_phone ELSE <<>>],
     agents |-> MapRecordAgents(r)]

\* the value listAppointments() resolves to when called without parameters:
\* every record mapped, no filter active, sorted newest first, not paginated
ListAppointmentsItems(records, t) ==
    SortByDate([i \in 1..Len(records) |-> MapRecord(records[i], t)], TRUE)

----------------------------------------------------------------------------
(* pages/HomePage.vue: applyFiltersAndPagination *)

PageSize == 10
AllStatuses == "All Statuses"

\* the names the selected agent ids stand for: the full name of the page's
\* agent with that id, or the id itself when the page has no such agent
SelectedAgentNames(f, ags) ==
    [k \in 1..Len(f.agentIds) |->
        LET id == f.agentIds[k]
            found == {j \in 1..Len(ags) : ags[j].id = id}
        IN  IF found # {}
            THEN ags[CHOOSE j \in found : \A j2 \in found : j <= j2].fullName
            ELSE id]

MatchesStatus(item, f) == item.status = f.status

\* MatchesAgents with containment tested in one direction only
MatchesAgentsOneWay(item, names) ==
    \E a \in 1..Len(item.agents) : \E n \in 1..Len(names) :
        Includes(ToLowerCase(item.agents[a].name), ToLowerCase(names[n]))

MatchesAgents(item, names) ==
    \E a \in 1..Len(item.agents) : \E n \in 1..Len(names) :
        \/ Includes(ToLowerCase(item.agents[a].name), ToLowerCase(names[n]))
        \/ Includes(ToLowerCase(names[n]), ToLowerCase(item.agents[a].name))

\* MatchesQuery with the query compared as typed
MatchesQueryAsTyped(item, query) ==
    \/ Includes(ToLowerCase(item.address), query)
    \/ Includes(ToLowerCase(item.contact.name), query)
    \/ (Truthy(item.contact.email) /\ Includes(ToLowerCase(item.contact.email), query))
    \/ (Truthy(item.contact.phone) /\ Includes(ToLowerCase(item.contact.phone), query))

MatchesQuery(item, query) ==
    LET q == ToLowerCase(query)
    IN  \/ Includes(ToLowerCase(item.address), q)
        \/ Includes(ToLowerCase(item.contact.name), q)
        \/ (Truthy(item.contact.email) /\ Includes(ToLowerCase(item.contact.email), q))
        \/ (Truthy(item.contact.phone) /\ Includes(ToLowerCase(item.contact.phone), q))

MatchesRange(item, f, zone) ==
    LET itemDate == ParseISO(item.date)
        fromOk == IF NonEmpty(f.from) THEN itemDate >= ParseDateOnly(f.from) ELSE TRUE
        toOk == IF NonEmpty(f.to)
                THEN itemDate <= SetHoursEndOfDay(ParseDateOnly(f.to), zone)
                ELSE TRUE
    IN  fromOk /\ toOk

\* FilteredItems with the text query applied to the whole cache
FilteredItemsQueryOnCache(cache, f, ags, zone) ==
    LET byStatus == IF f.status # AllStatuses
                    THEN SelectSeq(cache, LAMBDA it : MatchesStatus(it, f))
                    ELSE cache
        names == SelectedAgentNames(f, ags)
        byAgent == IF Len(f.agentIds) > 0
                   THEN SelectSeq(byStatus, LAMBDA it : MatchesAgents(it, names))
                   ELSE byStatus
        byQuery == IF NonEmpty(f.query)
                   THEN SelectSeq(cache, LAMBDA it : MatchesQuery(it, f.query))
                   ELSE byAgent
        byRange == IF NonEmpty(f.from) \/ NonEmpty(f.to)
                   THEN SelectSeq(byQuery, LAMBDA it : MatchesRange(it, f, zone))
                   ELSE byQuery
    IN  SortByDate(byRange, f.sortBy = "date-desc")

\* the four filters in the order of the code, then the sort
FilteredItems(cache, f, ags, zone) ==
    LET byStatus == IF f.status # AllStatuses
                    THEN SelectSeq(cache, LAMBDA it : MatchesStatus(it, f))
                    ELSE cache
        names == SelectedAgentNames(f, ags)
        byAgent == IF Len(f.agentIds) > 0
                   THEN SelectSeq(byStatus, LAMBDA it : MatchesAgents(it, names))
                   ELSE byStatus
        byQuery == IF NonEmpty(f.query)
                   THEN SelectSeq(byAgent, LAMBDA it : MatchesQuery(it, f.query))
                   ELSE byAgent
        byRange == IF NonEmpty(f.from) \/ NonEmpty(f.to)
                   THEN SelectSeq(byQuery, LAMBDA it : MatchesRange(it, f, zone))
                   ELSE byQuery
    IN  SortByDate(byRange, f.sortBy = "date-desc")

\* TotalPagesOf with the quotient rounded down
TotalPagesFloor(n) == n \div PageSize

TotalPagesOf(n) == CeilDiv(n, PageSize)

\* PageSlice with the page number taken as zero-based
PageSliceFromPage(items, page) ==
    Slice(items, page * PageSize, page * PageSize + PageSize)

PageSlice(items, page) ==
    Slice(items, (page - 1) * PageSize, (page - 1) * PageSize + PageSize)

\* ApplyFiltersAndPagination adding the page to the items already shown
ApplyFiltersAndPaginationAppending(cache, f, ags, page) ==
    LET filteredItems == FilteredItems(cache, f, ags, tz)
    IN  /\ totalItems' = Len(filteredItems)
        /\ totalPages' = TotalPagesOf(Len(filteredItems))
        /\ appointments' = IF cache = allAppointments /\ page = applied.page
                           THEN appointments \o PageSlice(filteredItems, page)
                           ELSE PageSlice(filteredItems, page)
        /\ applied' = [filters |-> f, agents |-> ags, page |-> page,
                       repeat |-> /\ cache = allAppointments
                                  /\ f = applied.filters /\ ags = applied.agents
                                  /\ page = applied.page]

\* applyFiltersAndPagination, run when the cache is `cache`, the filters are f,
\* the page's agents are ags and the current page is `page`: writes the visible
\* items and the two totals
ApplyFiltersAndPagination(cache, f, ags, page) ==
    LET filteredItems == FilteredItems(cache, f, ags, tz)
    IN  /\ totalItems' = Len(filteredItems)
        /\ totalPages' = TotalPagesOf(Len(filteredItems))
        /\ appointments' = PageSlice(filteredItems, page)
        /\ applied' = [filters |-> f, agents |-> ags, page |-> page,
                       repeat |-> /\ cache = allAppointments
                                  /\ f = applied.filters /\ ags = applied.agents
                                  /\ page = applied.page]

----------------------------------------------------------------------------
(* Bounds and the finite sets the inputs are drawn from *)

NBig == 12          \* size of the large store
MaxPage == 3        \* largest page number the list component asks for
FilterDay == 2      \* the day picked in the date inputs

TzOffsets == {0 - 5 * HourMs, 0, 3 * HourMs}

sAnn == <<"a","n","n">>
sAnnLee == <<"A","n","n"," ","L","e","e">>
sAnnLeeExtra == sAnnLee \o <<" ","E","x","t","r","a">>
sBo == <<"B","o">>
sZed == <<"z","e","d">>
sOak == <<"1","2"," ","O","a","k">>
sElm == <<"7"," ","E","l","m">>
sNoah == <<"N","o","a","h">>
sBea == <<"B","e","a">>
sMail == <<"o","a","@","x">>
sPhone == <<"5","5","5">>
sQueryOa == <<"O","a">>
sQuery55 == <<"5","5">>

AgentId1 == <<"a","1">>
AgentId2 == <<"a","2">>

\* the remote Agents table
AgentsTable ==
    << [id |-> AgentId1, agent_name |-> <<"A","n","n">>, agent_surname |-> <<"L","e","e">>],
       [id |-> AgentId2, agent_name |-> sBo, agent_surname |-> <<>>] >>

AllKeys ==
    {"is_cancelled", "appointment_date", "appointment_address", "contact_id",
     "contact_name", "contact_email", "contact_phone", "agent_id", "agent_name"}

\* a complete raw Appointments record
Rec(id, cancelled, t, address, name, emails, phone, agentIds, agentNames) ==
    [id |-> id, keys |-> AllKeys \ ((IF emails = <<>> THEN {"contact_email"} ELSE {})
                                    \cup (IF phone = <<>> THEN {"contact_phone"} ELSE {})),
     is_cancelled |-> cancelled, appointment_date |-> ToISOString(t),
     appointment_address |-> address, contact_id |-> <<"c1">>,
     contact_name |-> <<name>>, contact_email |-> emails, contact_phone |-> phone,
     agent_id |-> agentIds, agent_name |-> agentNames]

\* a record of which only the listed fields are present
Sparse(r, keys) == [r EXCEPT !.keys = keys]

Noon(d) == d * DayMs + 12 * HourMs

\* instants around the bounds of the date range of FilterDay, in every zone
RangeInstants ==
    {FilterDay * DayMs, FilterDay * DayMs - 1, Noon(FilterDay)}
    \cup UNION {{FilterDay * DayMs + (DayMs - 1) - z,
                 FilterDay * DayMs + DayMs - z} : z \in TzOffsets}

DateRecords ==
    {Rec(1, FALSE, t, sElm, sBea, <<>>, <<>>, <<AgentId2>>, <<sBo>>) :
        t \in RangeInstants}

AgentRecords ==
    {Rec(1, FALSE, Noon(FilterDay), sElm, sBea, <<>>, <<>>, ids, names) :
        ids \in {<<AgentId1>>}, names \in {<<sAnn>>, <<sAnnLeeExtra>>, <<sZed>>, <<AgentId1>>}}
    \cup {Rec(1, FALSE, Noon(FilterDay), sElm, sBea, <<>>, <<>>,
              <<AgentId2, AgentId1>>, <<sBo>>),
          Rec(1, FALSE, Noon(FilterDay), sElm, sBea, <<>>, <<>>, <<>>, <<>>),
          Sparse(Rec(1, TRUE, Noon(FilterDay), sElm, sBea, <<>>, <<>>, <<>>, <<>>),
                 {"is_cancelled", "appointment_date"})}

TextRecords ==
    {Rec(1, FALSE, Noon(FilterDay), sOak, sBea, <<>>, <<>>, <<AgentId2>>, <<sBo>>),
     Rec(1, FALSE, Noon(FilterDay), sElm, sNoah, <<>>, <<>>, <<AgentId2>>, <<sBo>>),
     Rec(1, FALSE, Noon(FilterDay), sElm, sBea, <<sMail>>, <<>>, <<AgentId2>>, <<sBo>>),
     Rec(1, FALSE, Noon(FilterDay), sElm, sBea, <<>>, sPhone, <<AgentId2>>, <<sBo>>),
     Rec(1, TRUE, Noon(FilterDay), sElm, sBea, <<>>, <<>>, <<AgentId2>>, <<sBo>>),
     Sparse(Rec(1, FALSE, Noon(FilterDay), sElm, sBea, <<>>, <<>>, <<>>, <<>>), {})}

\* n records, an hour apart from midnight of day 1, every fifth cancelled,
\* with alternating agents
BigStore(n) ==
    [i \in 1..n |->
        Rec(i, i % 5 = 0, DayMs + i * 5 * HourMs,
            IF i % 2 = 0 THEN sOak ELSE sElm, IF i % 3 = 0 THEN sNoah ELSE sBea,
            <<>>, <<>>,
            IF i % 2 = 0 THEN <<AgentId1>> ELSE <<AgentId2>>,
            IF i % 2 = 0 THEN <<sAnnLee>> ELSE <<sBo>>)]

Mixed3 ==
    << Rec(1, FALSE, Noon(1), sOak, sNoah, <<sMail>>, sPhone, <<AgentId1>>, <<sAnnLee>>),
       Rec(2, TRUE, Noon(3), sElm, sBea, <<>>, <<>>, <<AgentId2>>, <<sBo>>),
       Rec(3, FALSE, Noon(3), sElm, sBea, <<>>, sPhone, <<AgentId1, AgentId2>>, <<sAnn>>) >>

----------------------------------------------------------------------------
(* The remote store *)

ServerPageSize == 8   \* records per response (Airtable's 100, scaled down)
MaxWrites == 1        \* create / update submissions in one run
MaxRelated == 1       \* overlapping loadRelatedAppointments calls

\* GET /{base}/Appointments with a cursor: one page of records in table order
\* and the cursor of the next page (0 when there is none; the cursor counts
\* the records already returned)
ServerList(table, cursor) ==
    LET last == Min(cursor + ServerPageSize, Len(table))
    IN  [records |-> SubSeq(table, cursor + 1, last),
         offset |-> IF last < Len(table) THEN last ELSE 0]

\* the remote Contacts table, as listContacts maps it
ContactsTable == << [id |-> "c1", name |-> sBea] >>

\* the lookup fields the store derives from the linked agent ids
LookupAgentNames(ids) ==
    [k \in 1..Len(ids) |->
        LET a == CHOOSE j \in 1..Len(AgentsTable) : AgentsTable[j].id = ids[k]
        IN  FullName(AgentsTable[a].agent_name, AgentsTable[a].agent_surname)]

\* CreatedRecord with the cancelled flag set for every status but Upcoming
CreatedRecordFlagged(id, payload) ==
    Rec(id, payload.status # "Upcoming", ParseISO(payload.datetime), payload.address,
        sBea, <<>>, <<>>, payload.agentIds, LookupAgentNames(payload.agentIds))

\* the fields createAppointment sends for a payload, as the store then lists them
CreatedRecord(id, payload) ==
    Rec(id, payload.status = "Cancelled", ParseISO(payload.datetime), payload.address,
        sBea, <<>>, <<>>, payload.agentIds, LookupAgentNames(payload.agentIds))

\* the record with the fields updateAppointment patches
PatchedRecord(r, patch) ==
    [r EXCEPT !.appointment_address = patch.address,
              !.appointment_date = patch.datetime,
              !.is_cancelled = (patch.status = "Cancelled"),
              !.contact_id = <<patch.contactId>>,
              !.agent_id = patch.agentIds,
              !.agent_name = LookupAgentNames(patch.agentIds)]

----------------------------------------------------------------------------
(* pages/HomePage.vue *)

DefaultFilters ==
    [status |-> AllStatuses, agentIds |-> <<>>, query |-> <<>>, from |-> <<>>,
     to |-> <<>>, sortBy |-> "date-desc"]

\* `unsorted` counts the requests the page's call has repeated without the sort
\* (it is not kept for the calls of the edit form)
Idle == [pc |-> "idle", offset |-> 0, allRecords |-> <<>>, unsorted |-> 0]

\* a listAppointments call whose first request (with the sort) is in flight
CallStart == [pc |-> "sorted", offset |-> 0, allRecords |-> <<>>, unsorted |-> 0]

viewVars == <<appointments, totalItems, totalPages, applied>>
cacheVars == <<allAppointments, mappedAt, viewVars>>
\* what no handler of the page writes: the environment and the state that is
\* private to the form component inside the modal
envVars == <<configured, tz, now, form>>

\* FetchAllAppointments without the test of the loading flag
FetchAllAppointmentsUnguarded(ags) ==
    IF ~configured
    THEN /\ allAppointments' = ListAppointmentsItems(<<>>, now)
         /\ mappedAt' = now
         /\ ApplyFiltersAndPagination(ListAppointmentsItems(<<>>, now), filters, ags,
                                      currentPage)
         /\ sent' = 0
         /\ UNCHANGED <<loading, fetch>>
    ELSE /\ loading' = TRUE
         /\ fetch' = CallStart
         /\ sent' = 1
         /\ UNCHANGED cacheVars

\* fetchAllAppointments(), up to its first pending request, when the page's
\* agents are ags.  Without a store identifier airtableList resolves to an
\* empty result at once and the fetch completes in the same task.
\* FetchAllAppointments asking the store even without a store identifier
FetchAllAppointmentsRequesting(ags) ==
    IF loading
    THEN /\ sent' = 0
         /\ UNCHANGED <<loading, fetch, cacheVars>>
    ELSE /\ loading' = TRUE
         /\ fetch' = CallStart
         /\ sent' = 1
         /\ UNCHANGED cacheVars

\* fetchAllAppointments(), when the page's agents are ags.  Without a store
\* identifier airtableList resolves to {records: [], offset: undefined} with
\* no request, so the whole call completes before any other event is handled
FetchAllAppointments(ags) ==
    IF loading
    THEN /\ sent' = 0
         /\ UNCHANGED <<loading, fetch, cacheVars>>
    ELSE IF ~configured
    THEN /\ allAppointments' = ListAppointmentsItems(<<>>, now)
         /\ mappedAt' = now
         /\ ApplyFiltersAndPagination(ListAppointmentsItems(<<>>, now), filters, ags,
                                      currentPage)
         /\ sent' = 0
         /\ UNCHANGED <<loading, fetch>>
    ELSE /\ loading' = TRUE
         /\ fetch' = CallStart
         /\ sent' = 1
         /\ UNCHANGED cacheVars

\* onMounted of the page: `agents.value = await listAgents()` resolves (listAgents
\* turns every failure into an empty list), then fetchAllAppointments()
PageAgentsLoaded(ok) ==
    /\ "page" \notin agentsLoaded
    /\ agentsLoaded' = agentsLoaded \cup {"page"}
    /\ agents' = IF ok /\ configured THEN MapAgents(AgentsTable) ELSE <<>>
    /\ FetchAllAppointments(agents')
    /\ UNCHANGED <<envVars, store, toolbarAgents, currentPage, filters,
                   searchTimeout, related, writes, editing, nWrites>>

\* onMounted of the toolbar: its own listAgents() resolves (to an empty list
\* when it fails)
ToolbarAgentsLoaded(ok) ==
    /\ "toolbar" \notin agentsLoaded
    /\ agentsLoaded' = agentsLoaded \cup {"toolbar"}
    /\ toolbarAgents' = IF ok /\ configured THEN MapAgents(AgentsTable) ELSE <<>>
    /\ sent' = 0
    /\ UNCHANGED <<envVars, store, agents, cacheVars, loading, currentPage,
                   filters, searchTimeout, fetch, related, writes, editing, nWrites>>

\* FetchFailed emptying the cache and the view
FetchFailedClearing ==
    /\ loading' = FALSE
    /\ fetch' = Idle
    /\ sent' = 0
    /\ allAppointments' = <<>>
    /\ mappedAt' = now
    /\ ApplyFiltersAndPagination(<<>>, filters, agents, currentPage)

\* listAppointments rejected: the catch and finally blocks of
\* fetchAllAppointments log the error and reset the loading flag
FetchFailed ==
    /\ loading' = FALSE
    /\ fetch' = Idle
    /\ sent' = 0
    /\ UNCHANGED cacheVars

\* FetchPageReceived taking the first response for the whole collection
FetchPageReceivedOnce ==
    LET data == ServerList(store, fetch.offset)
        allRecords == fetch.allRecords \o data.records
    IN  /\ allAppointments' = ListAppointmentsItems(allRecords, now)
        /\ mappedAt' = now
        /\ ApplyFiltersAndPagination(ListAppointmentsItems(allRecords, now),
                                     filters, agents, currentPage)
        /\ loading' = FALSE
        /\ fetch' = Idle
        /\ sent' = 0

\* a page of records arrives: the loop of listAppointments appends it and asks
\* for the next page (with the sort again) while the response carries a
\* cursor; after the last page the call resolves and fetchAllAppointments
\* writes the cache and recomputes the view
FetchPageReceived ==
    LET data == ServerList(store, fetch.offset)
        allRecords == fetch.allRecords \o data.records
    IN  IF data.offset # 0
        THEN /\ fetch' = [pc |-> "sorted", offset |-> data.offset,
                          allRecords |-> allRecords, unsorted |-> fetch.unsorted]
             /\ sent' = 1
             /\ UNCHANGED <<loading, cacheVars>>
        ELSE /\ allAppointments' = ListAppointmentsItems(allRecords, now)
             /\ mappedAt' = now
             /\ ApplyFiltersAndPagination(ListAppointmentsItems(allRecords, now),
                                          filters, agents, currentPage)
             /\ loading' = FALSE
             /\ fetch' = Idle
             /\ sent' = 0

\* FetchResponds repeating the request without the sort as long as the store
\* rejects it with a message that names the sort
FetchRespondsRetryingAgain(outcome) ==
    /\ fetch.pc \in {"sorted", "unsorted"}
    /\ \/ /\ outcome = "ok"
          /\ FetchPageReceived
       \/ /\ outcome = "sort"
          /\ fetch' = [fetch EXCEPT !.pc = "unsorted", !.unsorted = @ + 1]
          /\ sent' = 1
          /\ UNCHANGED <<loading, cacheVars>>
       \/ /\ outcome = "error"
          /\ FetchFailed
    /\ UNCHANGED <<envVars, store, agents, agentsLoaded, toolbarAgents,
                   currentPage, filters, searchTimeout, related, writes, editing,
                   nWrites>>

\* FetchResponds repeating without the sort after an error of any kind
FetchRespondsRetryingAnyError(outcome) ==
    /\ fetch.pc \in {"sorted", "unsorted"}
    /\ \/ /\ outcome = "ok"
          /\ FetchPageReceived
       \/ /\ outcome \in {"sort", "error"}
          /\ fetch.pc = "sorted"
          /\ fetch' = [fetch EXCEPT !.pc = "unsorted", !.unsorted = @ + 1]
          /\ sent' = 1
          /\ UNCHANGED <<loading, cacheVars>>
       \/ /\ fetch.pc = "unsorted"
          /\ outcome \in {"sort", "error"}
          /\ FetchFailed
    /\ UNCHANGED <<envVars, store, agents, agentsLoaded, toolbarAgents,
                   currentPage, filters, searchTimeout, related, writes, editing,
                   nWrites>>

\* the response to the pending request of the page's listAppointments call.
\* outcome: "ok", "sort" (an error whose message names the sort) or "error"
\* (any other failure).  An error of the request repeated without the sort is
\* thrown from inside the catch block, whatever its message
FetchResponds(outcome) ==
    /\ fetch.pc \in {"sorted", "unsorted"}
    /\ \/ /\ outcome = "ok"
          /\ FetchPageReceived
       \/ /\ outcome = "sort"
          /\ fetch.pc = "sorted"
          /\ fetch' = [fetch EXCEPT !.pc = "unsorted", !.unsorted = @ + 1]
          /\ sent' = 1
          /\ UNCHANGED <<loading, cacheVars>>
       \/ /\ outcome = "error" \/ (outcome = "sort" /\ fetch.pc = "unsorted")
          /\ FetchFailed
    /\ UNCHANGED <<envVars, store, agents, agentsLoaded, toolbarAgents,
                   currentPage, filters, searchTimeout, related, writes, editing,
                   nWrites>>

\* ApplyFilters filtering the cache itself, not a copy of it
ApplyFiltersOnCacheItself(f) ==
    /\ currentPage' = 1
    /\ ApplyFiltersAndPagination(allAppointments, f, agents, 1)
    /\ allAppointments' = FilteredItems(allAppointments, f, agents, tz)
    /\ sent' = 0
    /\ UNCHANGED <<mappedAt, loading, fetch>>

\* ApplyFilters asking the store for the list again
ApplyFiltersRefetching(f) ==
    /\ currentPage' = 1
    /\ ApplyFiltersAndPagination(allAppointments, f, agents, 1)
    /\ IF configured /\ ~loading
       THEN loading' = TRUE /\ fetch' = CallStart /\ sent' = 1
       ELSE sent' = 0 /\ UNCHANGED <<loading, fetch>>
    /\ UNCHANGED <<allAppointments, mappedAt>>

\* applyFilters, with the filters the toolbar has just written through v-model
ApplyFilters(f) ==
    /\ currentPage' = 1
    /\ ApplyFiltersAndPagination(allAppointments, f, agents, 1)
    /\ sent' = 0
    /\ UNCHANGED <<allAppointments, mappedAt, loading, fetch>>

pageFrame == <<envVars, store, agents, agentsLoaded, toolbarAgents, related,
               writes, editing, nWrites>>

\* onPageChange(page), the handler of the list's pageChange event
OnPageChange(page) ==
    /\ page >= 1 /\ page <= totalPages /\ page # currentPage
    /\ currentPage' = page
    /\ ApplyFiltersAndPagination(allAppointments, filters, agents, page)
    /\ sent' = 0
    /\ UNCHANGED <<allAppointments, mappedAt, loading, fetch, filters, searchTimeout>>
    /\ UNCHANGED pageFrame

----------------------------------------------------------------------------
(* FilterToolbar *)

\* updateFilter(updates) for a field other than query: v-model, then search
UpdateFilter(f) ==
    /\ f # filters
    /\ f.query = filters.query
    /\ filters' = f
    /\ ApplyFilters(f)
    /\ UNCHANGED searchTimeout
    /\ UNCHANGED pageFrame

\* Array toggling of toggleAgent
Toggled(ids, id) ==
    IF \E k \in 1..Len(ids) : ids[k] = id
    THEN SelectSeq(ids, LAMBDA x : x # id)
    ELSE Append(ids, id)

\* toggleAgent(agentId) on the k-th avatar (six are shown)
ToggleAgent(k) ==
    /\ k \in 1..Min(Len(toolbarAgents), 6)
    /\ UpdateFilter([filters EXCEPT !.agentIds = Toggled(@, toolbarAgents[k].id)])

\* updateFilter({query}): v-model only; the watcher restarts the debounce timer
UpdateQuery(q) ==
    /\ q # filters.query
    /\ filters' = [filters EXCEPT !.query = q]
    /\ searchTimeout' = TRUE
    /\ sent' = 0
    /\ UNCHANGED <<cacheVars, loading, currentPage, fetch>>
    /\ UNCHANGED pageFrame

\* SearchTimeoutFires without the search event
SearchTimeoutLapses ==
    /\ searchTimeout
    /\ searchTimeout' = FALSE
    /\ sent' = 0
    /\ UNCHANGED <<cacheVars, loading, currentPage, fetch, filters>>
    /\ UNCHANGED pageFrame

\* the debounce timer fires: emit('search')
SearchTimeoutFires ==
    /\ searchTimeout
    /\ searchTimeout' = FALSE
    /\ ApplyFilters(filters)
    /\ UNCHANGED filters
    /\ UNCHANGED pageFrame

\* clearFilters, offered while hasActiveFilters()
ClearFilters ==
    /\ filters # DefaultFilters
    /\ filters' = DefaultFilters
    /\ searchTimeout' = (searchTimeout \/ NonEmpty(filters.query))
    /\ ApplyFilters(DefaultFilters)
    /\ UNCHANGED pageFrame

----------------------------------------------------------------------------
(* Create and update *)

CreatePayloads ==
    {[contactId |-> "c1", address |-> sOak, agentIds |-> <<AgentId1>>,
      datetime |-> ToISOString(Noon(3)), status |-> "Upcoming"]}

\* the payload the edit form emits for an item when the user cancels the
\* appointment: the item's fields with the status set to Cancelled
UpdatePayloads(item) ==
    {[contactId |-> item.contact.id, address |-> item.address,
      agentIds |-> [k \in 1..Len(item.agents) |-> item.agents[k].id],
      datetime |-> item.date, status |-> "Cancelled"]}

\* onCreate(payload), up to `await createAppointment(payload)`.  Without a
\* store identifier createAppointment resolves to a mock record at once, and
\* the rest of onCreate runs in the same task.
OnCreate(payload) ==
    /\ nWrites < MaxWrites
    /\ editing = <<>>
    /\ nWrites' = nWrites + 1
    /\ IF configured
       THEN /\ writes' = Append(writes, [kind |-> "create", id |-> 0, payload |-> payload])
            /\ sent' = 1
            /\ UNCHANGED <<loading, fetch, cacheVars>>
       ELSE /\ FetchAllAppointments(agents)
            /\ UNCHANGED writes
    /\ UNCHANGED <<envVars, store, agents, agentsLoaded, toolbarAgents,
                   currentPage, filters, searchTimeout, related, editing>>

\* onEdit(appointment): a click on a visible item (the list is hidden while
\* loading); the edit form mounts and asks for agents and contacts
OnEdit(i) ==
    /\ ~loading /\ editing = <<>>
    /\ i \in 1..Len(appointments)
    /\ editing' = <<appointments[i]>>
    /\ related' = [related EXCEPT !.contacts = <<>>, !.loaded = FALSE]
    /\ sent' = 2
    /\ UNCHANGED <<envVars, store, agents, agentsLoaded, toolbarAgents,
                   cacheVars, loading, currentPage, filters, searchTimeout, fetch,
                   writes, nWrites>>

\* the edit form's cancel event
OnCancelEdit ==
    /\ editing # <<>>
    /\ editing' = <<>>
    /\ sent' = 0
    /\ UNCHANGED <<envVars, store, agents, agentsLoaded, toolbarAgents,
                   cacheVars, loading, currentPage, filters, searchTimeout, fetch,
                   related, writes, nWrites>>

\* onUpdate(id, payload), up to `await updateAppointment(id, payload)`
OnUpdate(payload) ==
    /\ editing # <<>>
    /\ nWrites < MaxWrites
    /\ nWrites' = nWrites + 1
    /\ writes' = Append(writes, [kind |-> "update", id |-> editing[1].id,
                                 payload |-> payload])
    /\ sent' = 1
    /\ UNCHANGED <<envVars, store, agents, agentsLoaded, toolbarAgents,
                   cacheVars, loading, currentPage, filters, searchTimeout, fetch,
                   related, editing>>

RemoveAt(s, k) == SubSeq(s, 1, k - 1) \o SubSeq(s, k + 1, Len(s))

\* the store after a write
StoreAfter(w) ==
    IF w.kind = "create"
    THEN Append(store, CreatedRecord(Len(store) + 1, w.payload))
    ELSE [i \in 1..Len(store) |->
            IF store[i].id = w.id THEN PatchedRecord(store[i], w.payload) ELSE store[i]]

\* the write succeeded: the rest of the try block of onCreate / onUpdate
WriteSucceeded(w) ==
    /\ editing' = IF w.kind = "update" THEN <<>> ELSE editing
    /\ FetchAllAppointments(agents)

\* the response to a pending write arrives
WriteResponds(k, ok) ==
    /\ k \in 1..Len(writes)
    /\ writes' = RemoveAt(writes, k)
    /\ IF ok
       THEN /\ store' = StoreAfter(writes[k])
            /\ WriteSucceeded(writes[k])
       ELSE /\ sent' = 0
            /\ UNCHANGED <<store, editing, loading, fetch, cacheVars>>
    /\ UNCHANGED <<envVars, agents, agentsLoaded, toolbarAgents, currentPage,
                   filters, searchTimeout, related, nWrites>>

----------------------------------------------------------------------------
(* components/CreateAppointmentForm.vue, components/EditAppointmentForm.vue *)
(*                                                                          *)
(* The value of a datetime-local input ("YYYY-MM-DDTHH:mm") names a whole   *)
(* minute: it is <<wall>>, the number of that minute, and the empty value   *)
(* is <<>>.  The forms compare such values with the clock, so this section  *)
(* counts instants in minutes: a whole minute m is later than the clock     *)
(* exactly when m is greater than the clock's minute, and not later         *)
(* exactly when it is less or equal.                                        *)
(*                                                                          *)
(* errors, isValid and availableStatuses are computed values: each keeps    *)
(* the result of its last evaluation and is evaluated again only after a    *)
(* reactive value it read has changed.  The clock it read is not one.       *)

Minute == 60 * 1000
MinutesPerDay == DayMs \div Minute

\* new Date(), in minutes
NowMinute == now \div Minute

\* date.toISOString().slice(0, 16): the UTC wall minute of an instant
Slice16(t) == <<t>>

\* new Date(value) of a datetime-local value: the value read as local time
ParseLocal(v) == v[1] - tz \div Minute

\* new Date(iso) of an ISO timestamp, in minutes
ParseISOMinute(iso) == iso[1] * MinutesPerDay + iso[2] \div Minute

\* date.toISOString() of an instant given in minutes
ToISOStringMinute(t) == <<t \div MinutesPerDay, (t % MinutesPerDay) * Minute>>

\* date.setFullYear(date.getFullYear() + 2), for a clock with no 29 February
\* in the two years that follow it
TwoYearsFromNow(clock) == clock + 2 * 365 * MinutesPerDay

RECURSIVE TrimStart(_)
TrimStart(s) == IF s # <<>> /\ Head(s) = " " THEN TrimStart(Tail(s)) ELSE s

RECURSIVE TrimEnd(_)
TrimEnd(s) ==
    IF s # <<>> /\ s[Len(s)] = " " THEN TrimEnd(SubSeq(s, 1, Len(s) - 1)) ELSE s

\* s.trim()
Trim(s) == TrimEnd(TrimStart(s))

MinAddress == 5
MaxAddress == 200

\* errs[key] = message
Put(errs, key, message) == {e \in errs : e[1] # key} \cup {<<key, message>>}

\* Object.keys(errs)
Keys(errs) == {e[1] : e \in errs}

\* CreateAppointmentForm: the function of `errors`, evaluated at a clock
CreateErrors(S, clock) ==
    IF ~S.submitted THEN {}
    ELSE
    LET f == S.f
        e1 == IF f.contactId = "" THEN Put({}, "contactId", "Please select a contact")
              ELSE {}
        e2 == IF Trim(f.address) = <<>> THEN Put(e1, "address", "Address is required")
              ELSE e1
        e3 == IF f.datetime = <<>>
              THEN Put(e2, "datetime", "Date and time is required") ELSE e2
        e4 == IF Len(f.agentIds) = 0
              THEN Put(e3, "agentIds", "Please select at least one agent") ELSE e3
    IN  IF f.datetime # <<>> /\ ParseLocal(f.datetime) <= clock
        THEN Put(e4, "datetime", "Please select a future date and time") ELSE e4

\* the edit form validated by the rules of the create form
EditErrorsAsCreate(S, clock) == CreateErrors(S, clock)

\* EditAppointmentForm: the function of `errors`, evaluated at a clock.  A
\* datetime-local value is always a valid date, so the isNaN branch is not
\* taken.
EditErrors(S, clock) ==
    IF ~S.submitted THEN {}
    ELSE
    LET f == S.f
        hasContact == f.contactId # "" \/ (S.selectedContact /\ ~S.showContactSearch)
        e1 == IF ~S.loading /\ ~hasContact
              THEN Put({}, "contactId", "Please select a contact") ELSE {}
        e2 == IF Trim(f.address) = <<>> THEN Put(e1, "address", "Address is required")
              ELSE e1
        e3 == IF f.datetime = <<>>
              THEN Put(e2, "datetime", "Date and time is required") ELSE e2
        e4 == IF Len(f.agentIds) = 0
              THEN Put(e3, "agentIds", "Please select at least one agent") ELSE e3
        e5 == IF /\ f.datetime # <<>> /\ f.status = "Upcoming"
                 /\ ParseLocal(f.datetime) <= clock
              THEN Put(e4, "datetime",
                       "Upcoming appointments must be scheduled for a future date")
              ELSE e4
        e6 == IF f.datetime # <<>> /\ ParseLocal(f.datetime) > TwoYearsFromNow(clock)
              THEN Put(e5, "datetime",
                       "Appointments cannot be scheduled more than 2 years in advance")
              ELSE e5
        e7 == IF Len(Trim(f.address)) < MinAddress
              THEN Put(e6, "address", "Address must be at least 5 characters long")
              ELSE e6
    IN  IF Len(Trim(f.address)) > MaxAddress
        THEN Put(e7, "address", "Address cannot exceed 200 characters") ELSE e7

\* Errors without the test of `submitted`
ErrorsUnsuppressed(S, clock) ==
    IF S.kind = "create" THEN CreateErrors([S EXCEPT !.submitted = TRUE], clock)
    ELSE EditErrors([S EXCEPT !.submitted = TRUE], clock)

Errors(S, clock) ==
    IF S.kind = "create" THEN CreateErrors(S, clock) ELSE EditErrors(S, clock)

\* the reactive values an evaluation of `errors` reads in state S
Reads(S) ==
    IF ~S.submitted THEN {"submitted"}
    ELSE IF S.kind = "create"
    THEN {"submitted", "contactId", "address", "datetime", "agentIds"}
    ELSE {"submitted", "contactId", "loading", "address", "datetime", "agentIds"}
         \cup (IF S.f.contactId = ""
               THEN {"selectedContact"}
                    \cup (IF S.selectedContact THEN {"showContactSearch"} ELSE {})
               ELSE {})
         \cup (IF S.f.datetime # <<>> THEN {"status"} ELSE {})

Dep(S, name) ==
    CASE name = "submitted" -> <<S.submitted>>
      [] name = "loading" -> <<S.loading>>
      [] name = "selectedContact" -> <<S.selectedContact>>
      [] name = "showContactSearch" -> <<S.showContactSearch>>
      [] name = "contactId" -> <<S.f.contactId>>
      [] name = "address" -> S.f.address
      [] name = "datetime" -> S.f.datetime
      [] name = "agentIds" -> S.f.agentIds
      [] name = "status" -> <<S.f.status>>

\* `errors` has to be evaluated again: a value its last evaluation read in S
\* is different in S1
ErrorsDirty(S, S1) == \E name \in Reads(S) : Dep(S1, name) # Dep(S, name)

\* isValid
IsValid(S) == Keys(S.errors) = {}

\* EditAppointmentForm: the function of `availableStatuses`
AvailableStatuses(f, clock) ==
    IF f.datetime = <<>> THEN {"Upcoming", "Cancelled"}
    ELSE IF ParseLocal(f.datetime) > clock THEN {"Upcoming", "Cancelled"}
    ELSE {"Completed", "Cancelled"}

\* the date watcher without its test of the status
DateWatcherAnyStatus(f, clock) ==
    IF f.datetime = <<>> THEN f
    ELSE IF ParseLocal(f.datetime) <= clock THEN [f EXCEPT !.status = "Completed"]
    ELSE [f EXCEPT !.status = "Upcoming"]

\* EditAppointmentForm: the callback of watch(() => form.value.datetime),
\* which runs after the date field has changed
DateWatcher(f, clock) ==
    IF f.datetime = <<>> THEN f
    ELSE IF ParseLocal(f.datetime) <= clock /\ f.status = "Upcoming"
    THEN [f EXCEPT !.status = "Completed"]
    ELSE IF ParseLocal(f.datetime) > clock /\ f.status = "Completed"
    THEN [f EXCEPT !.status = "Upcoming"]
    ELSE f

\* the fields after a handler has assigned them: in the edit form the date
\* watcher runs when the date field is different
Watched(S, f) ==
    IF S.kind = "edit" /\ f.datetime # S.f.datetime THEN DateWatcher(f, NowMinute)
    ELSE f

NoForm == [kind |-> "none"]
\* form.attempt describes the submit attempt made by the last step, if any,
\* and form.dateChange is the status the form had before the last step when
\* that step changed the date field ("" when it did not)
NoAttempt == [made |-> FALSE, first |-> FALSE, emitted |-> FALSE, payload |-> <<>>]

\* Flush without the evaluation of `errors`
FlushKeepingErrors(S, S1) ==
    [S1 EXCEPT !.statuses = IF S1.kind = "edit" /\ S1.f.datetime # S.f.datetime
                            THEN AvailableStatuses(S1.f, NowMinute) ELSE S.statuses,
               !.min = IF S1.kind = "edit" THEN Slice16(NowMinute) ELSE S.min,
               !.attempt = NoAttempt, !.dateChange = ""]

\* the render that follows a handler which took the form from S to S1: the
\* template reads errors, isValid and availableStatuses, which are evaluated
\* again when a value they read has changed, and the edit form's
\* :min="new Date().toISOString().slice(0, 16)" is evaluated at every render
Flush(S, S1) ==
    [S1 EXCEPT !.errors = IF ErrorsDirty(S, S1) THEN Errors(S1, NowMinute)
                          ELSE S.errors,
               !.statuses = IF S1.kind = "edit" /\ S1.f.datetime # S.f.datetime
                            THEN AvailableStatuses(S1.f, NowMinute) ELSE S.statuses,
               !.min = IF S1.kind = "edit" THEN Slice16(NowMinute) ELSE S.min,
               !.attempt = NoAttempt, !.dateChange = ""]

\* the create form after setup
CreateFormSetup(clock) ==
    LET S0 ==
    [kind |-> "create", id |-> NoId,
     f |-> [contactId |-> "", address |-> <<>>, agentIds |-> <<>>,
            datetime |-> Slice16(clock), status |-> "Upcoming"],
     selectedContact |-> FALSE, showContactSearch |-> FALSE, loading |-> TRUE,
     submitted |-> FALSE, errors |-> {}, statuses |-> {}, min |-> <<>>,
     attempt |-> NoAttempt, dateChange |-> ""]
    IN  [S0 EXCEPT !.errors = Errors(S0, clock)]

\* the edit form after setup and its first render: the immediate watcher of
\* props.appointment has filled the fields, and the date watcher has run on
\* the date it assigned
EditFormSetup(appointment, clock) ==
    LET f0 == [contactId |-> IF appointment.contact.id = NoId THEN ""
                             ELSE appointment.contact.id,
               address |-> appointment.address,
               agentIds |-> [k \in 1..Len(appointment.agents) |->
                                appointment.agents[k].id],
               datetime |-> Slice16(ParseISOMinute(appointment.date)),
               status |-> appointment.status]
        f == DateWatcher(f0, clock)
        S0 == [kind |-> "edit", id |-> appointment.id, f |-> f,
               selectedContact |-> TRUE, showContactSearch |-> FALSE, loading |-> TRUE,
               submitted |-> FALSE, errors |-> {},
               statuses |-> AvailableStatuses(f, clock), min |-> Slice16(clock),
               attempt |-> NoAttempt, dateChange |-> ""]
    IN  [S0 EXCEPT !.errors = Errors(S0, clock)]

MaxTicks == 2         \* minutes that pass while the form is open

formPageVars == <<configured, tz, store, agents, agentsLoaded, toolbarAgents,
                  cacheVars, loading, currentPage, filters, searchTimeout, fetch,
                  related, writes, editing, sent, nWrites>>

\* a minute passes
Tick ==
    /\ form.kind # "none"
    /\ now < Noon(FilterDay) + MaxTicks * Minute
    /\ now' = now + Minute
    /\ form' = [form EXCEPT !.attempt = NoAttempt, !.dateChange = ""]
    /\ UNCHANGED formPageVars

\* the `finally` of onMounted: the inputs are enabled
OnMountedSettled ==
    /\ form.kind # "none" /\ form.loading
    /\ form' = Flush(form, [form EXCEPT !.loading = FALSE])
    /\ UNCHANGED <<now, formPageVars>>

\* the user can act on the form: its inputs are not disabled
InputsEnabled(S) == S.kind # "none" /\ ~S.loading

\* CreateAppointmentForm: selectContact(contact)
CreateSelectContact(contactId) ==
    /\ form.kind = "create" /\ InputsEnabled(form)
    /\ form' = Flush(form, [form EXCEPT !.f.contactId = contactId,
                                        !.selectedContact = TRUE])
    /\ UNCHANGED <<now, formPageVars>>

\* CreateAppointmentForm: clearContact(), and onContactInputFocus() while a
\* contact is selected
ClearContact ==
    /\ form.kind = "create" /\ InputsEnabled(form) /\ form.selectedContact
    /\ form' = Flush(form, [form EXCEPT !.f.contactId = "", !.selectedContact = FALSE])
    /\ UNCHANGED <<now, formPageVars>>

\* EditAppointmentForm: "Change contact" / "Cancel" of the contact search
ShowContactSearch(show) ==
    /\ form.kind = "edit" /\ InputsEnabled(form) /\ form.showContactSearch # show
    /\ form' = Flush(form, [form EXCEPT !.showContactSearch = show])
    /\ UNCHANGED <<now, formPageVars>>

\* v-model="form.address"; the edit form's input has maxlength="200"
SetAddress(address) ==
    /\ InputsEnabled(form) /\ address # form.f.address
    /\ form.kind = "edit" => Len(address) <= MaxAddress
    /\ form' = Flush(form, [form EXCEPT !.f.address = address])
    /\ UNCHANGED <<now, formPageVars>>

\* v-model="form.agentIds" of an agent's checkbox
ToggleFormAgent(id) ==
    /\ InputsEnabled(form)
    /\ LET ids == form.f.agentIds
           toggled == IF \E k \in 1..Len(ids) : ids[k] = id
                      THEN SelectSeq(ids, LAMBDA x : x # id)
                      ELSE Append(ids, id)
       IN  form' = Flush(form, [form EXCEPT !.f.agentIds = toggled])
    /\ UNCHANGED <<now, formPageVars>>

\* v-model="form.datetime"
SetDatetime(value) ==
    /\ InputsEnabled(form) /\ value # form.f.datetime
    /\ form' = [Flush(form, [form EXCEPT
                                !.f = Watched(form, [form.f EXCEPT !.datetime = value])])
                EXCEPT !.dateChange = form.f.status]
    /\ UNCHANGED <<now, formPageVars>>

\* EditAppointmentForm: v-model="form.status" of the select, whose options
\* are availableStatuses
SetStatus(status) ==
    /\ form.kind = "edit" /\ InputsEnabled(form)
    /\ status \in form.statuses /\ status # form.f.status
    /\ form' = Flush(form, [form EXCEPT !.f.status = status])
    /\ UNCHANGED <<now, formPageVars>>

\* the agent dropdown is opened or closed: the form is rendered again
ToggleAgentDropdown ==
    /\ form.kind = "edit" /\ InputsEnabled(form)
    /\ form.min # Slice16(NowMinute)
    /\ form' = Flush(form, form)
    /\ UNCHANGED <<now, formPageVars>>

\* the submit button is not disabled (:disabled="loading || !isValid")
SubmitEnabled(S) == ~S.loading /\ IsValid(S)

\* the browser's own check of the edit form's date input against its min
\* attribute: a value below it keeps the submit event from being sent
RangeUnderflow(S) == S.f.datetime # <<>> /\ S.f.datetime[1] < S.min[1]

\* onSubmit(e) of either form.  submitted becomes true; isValid is read: it
\* is evaluated again if submitted was false, and is the kept result
\* otherwise.  When valid, the payload is emitted between loading = true and
\* loading = false, which the edit form's `errors` reads: the render that
\* follows evaluates it again.
OnSubmit(payload) ==
    LET S1 == [form EXCEPT !.submitted = TRUE]
        errs == IF ErrorsDirty(form, S1) THEN Errors(S1, NowMinute) ELSE form.errors
        S2 == [S1 EXCEPT !.errors = errs]
    IN  /\ form' = [S2 EXCEPT
                     !.errors = IF errs = {} /\ "loading" \in Reads(S2)
                                THEN Errors(S2, NowMinute) ELSE errs,
                     !.min = IF S2.kind = "edit" THEN Slice16(NowMinute) ELSE S2.min,
                     !.dateChange = "",
                     !.attempt = [made |-> TRUE, first |-> ~form.submitted,
                                  emitted |-> errs = {},
                                  payload |-> IF errs = {} THEN payload ELSE <<>>]]
        /\ UNCHANGED <<now, formPageVars>>

\* CreateAppointmentForm: the submit event of the form
CreateOnSubmit ==
    /\ form.kind = "create" /\ SubmitEnabled(form)
    /\ OnSubmit(form.f)

\* EditAppointmentForm: the submit event of the form
EditOnSubmit ==
    /\ form.kind = "edit" /\ SubmitEnabled(form) /\ ~RangeUnderflow(form)
    /\ OnSubmit(<<form.id, [form.f EXCEPT !.datetime =
                               IF form.f.datetime = <<>> THEN <<>>
                               ELSE ToISOStringMinute(ParseLocal(form.f.datetime))]>>)

----------------------------------------------------------------------------
(* EditAppointmentForm: loadRelatedAppointments *)

\* loadRelatedAppointments(contactId): its own listAppointments() call, when
\* the contact is among the form's contacts
LoadRelatedAppointments(contacts, contactId) ==
    IF \E c \in 1..Len(contacts) : contacts[c].id = contactId
    THEN /\ related' = [related EXCEPT !.contacts = contacts, !.loaded = TRUE,
                                       !.calls = Append(@, CallStart)]
         /\ sent' = 1
    ELSE /\ related' = [related EXCEPT !.contacts = contacts, !.loaded = TRUE]
         /\ sent' = 0

formFrame == <<configured, tz, now, store, agents, agentsLoaded, toolbarAgents,
               cacheVars, loading, currentPage, filters, searchTimeout, fetch, writes,
               editing, nWrites>>

\* onMounted of the edit form: agents and contacts have arrived, or failed
FormDataLoaded(ok) ==
    /\ editing # <<>> /\ ~related.loaded
    /\ Len(related.calls) < MaxRelated
    /\ IF ok /\ editing[1].contact.id # NoId
       THEN LoadRelatedAppointments(ContactsTable, editing[1].contact.id)
       ELSE /\ related' = [related EXCEPT !.loaded = TRUE,
                                          !.contacts = IF ok THEN ContactsTable ELSE <<>>]
            /\ sent' = 0
    /\ UNCHANGED <<form, formFrame>>

\* selectContact(contact) in the edit form, on a result of the contact search
SelectContact(c) ==
    /\ editing # <<>> /\ related.loaded
    /\ c \in 1..Len(related.contacts)
    /\ Len(related.calls) < MaxRelated
    /\ form.kind = "edit" => InputsEnabled(form) /\ form.showContactSearch
    /\ form' = IF form.kind = "edit"
               THEN Flush(form, [form EXCEPT !.f.contactId = related.contacts[c].id,
                                             !.selectedContact = TRUE,
                                             !.showContactSearch = FALSE])
               ELSE form
    /\ LoadRelatedAppointments(related.contacts, related.contacts[c].id)
    /\ UNCHANGED formFrame

\* the related appointments of a finished call: the other appointments of
\* the contact, newest first
RelatedOf(records, contactId, contactName, currentId) ==
    SelectSeq(ListAppointmentsItems(records, now),
              LAMBDA app : /\ (app.contact.id = contactId \/ app.contact.name = contactName)
                           /\ app.id # currentId)

\* the response to the pending request of a loadRelatedAppointments call
RelatedResponds(k, outcome) ==
    /\ k \in 1..Len(related.calls)
    /\ LET call == related.calls[k]
           data == ServerList(store, call.offset)
           allRecords == call.allRecords \o data.records
       IN  \/ /\ outcome = "ok" /\ data.offset # 0
              /\ related' = [related EXCEPT !.calls[k] =
                                [pc |-> "sorted", offset |-> data.offset,
                                 allRecords |-> allRecords, unsorted |-> 0]]
              /\ sent' = 1
           \/ /\ outcome = "ok" /\ data.offset = 0
              /\ related' = [related EXCEPT !.calls = RemoveAt(@, k)]
              /\ sent' = 0
           \/ /\ outcome = "sort" /\ call.pc = "sorted"
              /\ related' = [related EXCEPT !.calls[k].pc = "unsorted"]
              /\ sent' = 1
           \/ /\ outcome = "error" \/ (outcome = "sort" /\ call.pc = "unsorted")
              /\ related' = [related EXCEPT !.calls = RemoveAt(@, k)]
              /\ sent' = 0
    /\ UNCHANGED <<form, formFrame>>

----------------------------------------------------------------------------
(* The page *)

InitialStores == {<<>>, BigStore(NBig)}

Init ==
    /\ configured \in BOOLEAN
    /\ tz = 3 * HourMs
    /\ now = Noon(FilterDay)
    /\ store \in InitialStores
    /\ agents = <<>>
    /\ agentsLoaded = {}
    /\ toolbarAgents = <<>>
    /\ allAppointments = <<>>
    /\ appointments = <<>>
    /\ loading = FALSE
    /\ currentPage = 1
    /\ totalPages = 0
    /\ totalItems = 0
    /\ filters = DefaultFilters
    /\ searchTimeout = FALSE
    /\ fetch = Idle
    /\ related = [contacts |-> <<>>, loaded |-> FALSE, calls |-> <<>>]
    /\ writes = <<>>
    /\ editing = <<>>
    /\ sent = IF configured THEN 2 ELSE 0
    /\ nWrites = 0
    /\ applied = [filters |-> DefaultFilters, agents |-> <<>>, page |-> 1, repeat |-> FALSE]
    /\ mappedAt = Noon(FilterDay)
    /\ form = NoForm

Outcomes == {"ok", "sort", "error"}

\* the page with its toolbar and the create form (the edit form is part of
\* NextFetches, and the requests repeated without the sort are part of every
\* other specification of the page)
Next ==
    \/ \E ok \in BOOLEAN : PageAgentsLoaded(ok)
    \/ ToolbarAgentsLoaded(TRUE)
    \/ \E o \in {"ok", "error"} : FetchResponds(o)
    \/ \E p \in 1..MaxPage : OnPageChange(p)
    \/ \E st \in {AllStatuses, "Cancelled"} : UpdateFilter([filters EXCEPT !.status = st])
    \/ ToggleAgent(1)
    \/ \E q \in {<<>>, sQueryOa} : UpdateQuery(q)
    \/ SearchTimeoutFires
    \/ ClearFilters
    \/ \E payload \in CreatePayloads : OnCreate(payload)
    \/ \E k \in 1..MaxWrites, ok \in BOOLEAN : WriteResponds(k, ok)

Spec == Init /\ [][Next]_vars

----------------------------------------------------------------------------
(* The list fetches in flight: the page's fetch, the writes that ask for a   *)
(* re-fetch and the edit form's loadRelatedAppointments, with the filters    *)
(* left alone                                                                *)

NextFetches ==
    \/ \E ok \in BOOLEAN : PageAgentsLoaded(ok)
    \/ \E o \in Outcomes : FetchResponds(o)
    \/ \E payload \in CreatePayloads : OnCreate(payload)
    \/ OnEdit(1)
    \/ OnCancelEdit
    \/ \E payload \in UNION {UpdatePayloads(editing[k]) : k \in 1..Len(editing)} :
          OnUpdate(payload)
    \/ \E k \in 1..MaxWrites, ok \in BOOLEAN : WriteResponds(k, ok)
    \/ \E ok \in BOOLEAN : FormDataLoaded(ok)
    \/ SelectContact(1)
    \/ \E k \in 1..MaxRelated, o \in Outcomes : RelatedResponds(k, o)

SpecFetches == Init /\ [][NextFetches]_vars

----------------------------------------------------------------------------
(* The cache and the view under every handler of the page: fetches, filter   *)
(* and page changes, creates, and the edit flow with its updates, on the     *)
(* large store                                                               *)

InitCache == Init /\ configured /\ store = BigStore(NBig)

NextCache ==
    \/ PageAgentsLoaded(TRUE)
    \/ \E o \in Outcomes : FetchResponds(o)
    \/ \E p \in 1..MaxPage : OnPageChange(p)
    \/ \E st \in {AllStatuses, "Cancelled"} : UpdateFilter([filters EXCEPT !.status = st])
    \/ \E payload \in CreatePayloads : OnCreate(payload)
    \/ OnEdit(1)
    \/ OnCancelEdit
    \/ \E payload \in UNION {UpdatePayloads(editing[k]) : k \in 1..Len(editing)} :
          OnUpdate(payload)
    \/ \E k \in 1..MaxWrites, ok \in BOOLEAN : WriteResponds(k, ok)

SpecCache == InitCache /\ [][NextCache]_vars

----------------------------------------------------------------------------
(* The toolbar and the list: filter changes, the debounced query and page    *)
(* changes over the large store.  A timer set with setTimeout and not        *)
(* cleared fires: the search event of a pending timer is taken eventually.   *)

InitToolbar == Init /\ configured /\ store = BigStore(NBig)

NextToolbar ==
    \/ \E ok \in BOOLEAN : PageAgentsLoaded(ok)
    \/ ToolbarAgentsLoaded(TRUE)
    \/ \E o \in Outcomes : FetchResponds(o)
    \/ \E p \in 1..MaxPage : OnPageChange(p)
    \/ \E st \in {AllStatuses, "Cancelled"} : UpdateFilter([filters EXCEPT !.status = st])
    \/ ToggleAgent(1)
    \/ \E q \in {<<>>, sQueryOa} : UpdateQuery(q)
    \/ SearchTimeoutFires
    \/ ClearFilters

\* the step a pending timer takes when it expires; of the toolbar's handlers
\* only SearchTimeoutFires is such a step
TimerExpires == searchTimeout /\ searchTimeout' = FALSE

SpecToolbar == InitToolbar /\ [][NextToolbar]_vars /\ WF_searchTimeout(TimerExpires)

----------------------------------------------------------------------------
(* The query engine on its own: a fetch of a given store completes under a   *)
(* given clock, zone, agent list, filter specification and page              *)

EngineClock == {Noon(FilterDay) - 1, Noon(FilterDay), Noon(FilterDay) + 1}

Filters(status, agentIds, query, from, to) ==
    [status |-> status, agentIds |-> agentIds, query |-> query, from |-> from,
     to |-> to, sortBy |-> "date-desc"]

Input(records, zone, t, ags, f, page) ==
    [store |-> records, tz |-> zone, now |-> t, agents |-> ags, filters |-> f,
     page |-> page]

Statuses == {AllStatuses, "Upcoming", "Completed", "Cancelled"}
AgentSelections ==
    {<<>>, <<AgentId1>>, <<AgentId2>>, <<AgentId1, AgentId2>>, <<AgentId2, AgentId1>>}
Queries == {<<>>, sQueryOa, sQuery55}
DateInputs == {<<>>, <<FilterDay>>}
AgentLists == {MapAgents(AgentsTable), <<>>}

EngineInputs ==
    \* the date range, in every zone
    {Input(<<r>>, z, Noon(FilterDay), MapAgents(AgentsTable),
           Filters(AllStatuses, <<>>, <<>>, from, to), 1) :
        r \in DateRecords, z \in TzOffsets, from \in DateInputs, to \in DateInputs}
    \cup
    \* the agent filter, with and without the page's agent list
    {Input(<<r>>, 0, Noon(FilterDay), ags, Filters(AllStatuses, ids, <<>>, <<>>, <<>>), 1) :
        r \in AgentRecords, ags \in AgentLists, ids \in AgentSelections}
    \cup
    \* the text filter
    {Input(<<r>>, 0, Noon(FilterDay), MapAgents(AgentsTable),
           Filters(AllStatuses, <<>>, q, <<>>, <<>>), 1) :
        r \in TextRecords, q \in Queries}
    \cup
    \* the status, around the clock
    {Input(<<r>>, 0, t, MapAgents(AgentsTable), Filters(st, <<>>, <<>>, <<>>, <<>>), 1) :
        r \in TextRecords \cup AgentRecords, t \in EngineClock, st \in Statuses}
    \cup
    \* all filters together, and the pages
    {Input(records, 3 * HourMs, Noon(FilterDay), MapAgents(AgentsTable),
           Filters(st, ids, q, <<>>, to), page) :
        records \in {<<>>, Mixed3, BigStore(NBig)}, st \in Statuses,
        ids \in {<<>>, <<AgentId1>>}, q \in Queries, to \in DateInputs,
        page \in 1..MaxPage}
    \cup
    \* oldest first
    {Input(records, 3 * HourMs, Noon(FilterDay), MapAgents(AgentsTable),
           [Filters(st, <<>>, <<>>, <<>>, <<>>) EXCEPT !.sortBy = "date-asc"], page) :
        records \in {Mixed3, BigStore(NBig)}, st \in {AllStatuses, "Upcoming"},
        page \in 1..MaxPage}

InitEngine ==
    \E in \in EngineInputs :
        /\ configured = TRUE
        /\ tz = in.tz
        /\ now = in.now
        /\ store = in.store
        /\ agents = in.agents
        /\ agentsLoaded = {"page", "toolbar"}
        /\ toolbarAgents = MapAgents(AgentsTable)
        /\ allAppointments = <<>>
        /\ appointments = <<>>
        /\ loading = TRUE
        /\ currentPage = in.page
        /\ totalPages = 0
        /\ totalItems = 0
        /\ filters = in.filters
        /\ searchTimeout = FALSE
        /\ fetch = CallStart
        /\ related = [contacts |-> <<>>, loaded |-> FALSE, calls |-> <<>>]
        /\ writes = <<>>
        /\ editing = <<>>
        /\ sent = 1
        /\ nWrites = 0
        /\ applied = [filters |-> DefaultFilters, agents |-> <<>>, page |-> 1, repeat |-> FALSE]
        /\ mappedAt = in.now
        /\ form = NoForm

NextEngine == \E o \in Outcomes : FetchResponds(o)

SpecEngine == InitEngine /\ [][NextEngine]_vars

----------------------------------------------------------------------------
(* The forms: one form component from its setup on, with the fields its     *)
(* inputs can be given and a clock that advances                            *)

FormClock == Noon(FilterDay) \div Minute

Chars(n) == [i \in 1..n |-> "a"]

\* addresses typed into the address input: empty, blank, too short once
\* trimmed, the shortest and the longest accepted
AddressInputs ==
    {<<>>, <<" ", " ">>, <<" ">> \o Chars(MinAddress - 1) \o <<" ">>,
     Chars(MinAddress), Chars(MaxAddress)}

\* values of the date input in the local zone: none, one and two minutes
\* after the form was opened, and two years and a minute after it
DatetimeInputs ==
    {<<>>} \cup {<<t + tz \div Minute>> :
                    t \in {FormClock + 1, FormClock + 2, TwoYearsFromNow(FormClock + 1)}}

\* the records behind the appointments that are edited: one due in a minute,
\* a past one with an address of 201 characters and no contact link, and a
\* cancelled one due in two minutes
EditRecords ==
    {Rec(1, FALSE, Noon(FilterDay) + Minute, Chars(MinAddress), sBea, <<>>, <<>>,
         <<AgentId1>>, <<sAnnLee>>),
     Sparse(Rec(2, FALSE, Noon(FilterDay) - DayMs, Chars(MaxAddress + 1), sBea, <<>>,
                <<>>, <<AgentId1>>, <<sAnnLee>>),
            AllKeys \ {"contact_id", "contact_email", "contact_phone"}),
     Rec(3, TRUE, Noon(FilterDay) + 2 * Minute, Chars(MinAddress), sBea, <<>>, <<>>,
         <<>>, <<>>)}

EditAppointments == {MapRecord(r, Noon(FilterDay)) : r \in EditRecords}

InitForms ==
    /\ configured = TRUE
    /\ tz \in TzOffsets
    /\ now = Noon(FilterDay)
    /\ store = <<>>
    /\ agents = <<>>
    /\ agentsLoaded = {"page", "toolbar"}
    /\ toolbarAgents = <<>>
    /\ allAppointments = <<>>
    /\ appointments = <<>>
    /\ loading = FALSE
    /\ currentPage = 1
    /\ totalPages = 0
    /\ totalItems = 0
    /\ filters = DefaultFilters
    /\ searchTimeout = FALSE
    /\ fetch = Idle
    /\ writes = <<>>
    /\ sent = 0
    /\ nWrites = 0
    /\ applied = [filters |-> DefaultFilters, agents |-> <<>>, page |-> 1, repeat |-> FALSE]
    /\ mappedAt = Noon(FilterDay)
    /\ \/ /\ form = CreateFormSetup(FormClock)
          /\ editing = <<>>
          /\ related = [contacts |-> <<>>, loaded |-> FALSE, calls |-> <<>>]
       \/ \E appointment \in EditAppointments :
             /\ form = EditFormSetup(appointment, FormClock)
             /\ editing = <<appointment>>
             /\ related = [contacts |-> ContactsTable, loaded |-> TRUE, calls |-> <<>>]

NextForms ==
    \/ Tick
    \/ OnMountedSettled
    \/ CreateSelectContact("c1")
    \/ ClearContact
    \/ \E show \in BOOLEAN : ShowContactSearch(show)
    \/ SelectContact(1)
    \/ \E address \in AddressInputs : SetAddress(address)
    \/ ToggleFormAgent(AgentId1)
    \/ \E value \in DatetimeInputs : SetDatetime(value)
    \/ \E status \in {"Upcoming", "Completed", "Cancelled"} : SetStatus(status)
    \/ ToggleAgentDropdown
    \/ CreateOnSubmit
    \/ EditOnSubmit

SpecForms == InitForms /\ [][NextForms]_vars

----------------------------------------------------------------------------
(* A create and the fetch that follows it, for payloads of every status     *)
(* dated before, at and after the clock                                     *)

RoundTripPayloads ==
    {[contactId |-> "c1", address |-> sOak, agentIds |-> <<AgentId1>>,
      datetime |-> ToISOString(t), status |-> status] :
        t \in {Noon(FilterDay) - HourMs, Noon(FilterDay), Noon(FilterDay + 1)},
        status \in {"Upcoming", "Completed", "Cancelled"}}

InitRoundTrip == Init /\ store = <<>>

NextRoundTrip ==
    \/ \E ok \in BOOLEAN : PageAgentsLoaded(ok)
    \/ \E o \in Outcomes : FetchResponds(o)
    \/ \E payload \in RoundTripPayloads : OnCreate(payload)
    \/ \E k \in 1..MaxWrites, ok \in BOOLEAN : WriteResponds(k, ok)

SpecRoundTrip == InitRoundTrip /\ [][NextRoundTrip]_vars

----------------------------------------------------------------------------
(* Properties *)

\* the item is one of the visible items
Visible(item) == \E j \in 1..Len(appointments) : appointments[j] = item

\* the last recomputation showed page 1 of a cache that fits one page, so that
\* an item is visible exactly when it passed the filters
WholeListShown == applied.page = 1 /\ Len(allAppointments) <= PageSize

\* either string contains the other, case-insensitively
Related(a, b) ==
    \/ Includes(ToLowerCase(a), ToLowerCase(b))
    \/ Includes(ToLowerCase(b), ToLowerCase(a))

\* C1: every mapped record's status is Cancelled iff its cancelled flag is
\* true; otherwise Completed iff its date is strictly earlier than the clock at
\* the moment of mapping, and Upcoming in every other case
C1_StatusDerivation ==
    \A i \in 1..Len(allAppointments) : \A j \in 1..Len(store) :
        store[j].id = allAppointments[i].id =>
            LET r == store[j]
                status == allAppointments[i].status
                cancelled == "is_cancelled" \in r.keys /\ r.is_cancelled = TRUE
                past == /\ "appointment_date" \in r.keys
                        /\ r.appointment_date[1] * DayMs + r.appointment_date[2] < mappedAt
            IN  /\ (status = "Cancelled") <=> cancelled
                /\ ~cancelled => ((status = "Completed") <=> past)
                /\ (~cancelled /\ ~past) => status = "Upcoming"

\* a record dated one millisecond before the clock was mapped to Completed
C1_Witness ==
    \E i \in 1..Len(allAppointments) :
        /\ allAppointments[i].status = "Completed"
        /\ ParseISO(allAppointments[i].date) = mappedAt - 1

\* the number of appointment list fetches in flight: the page's and the edit
\* form's
ListFetchesInFlight == (IF fetch.pc # "idle" THEN 1 ELSE 0) + Len(related.calls)

\* a step in which the page asks for the list: the end of onMounted, or the
\* success of a create or an update
FetchRequested ==
    \/ \E ok \in BOOLEAN : PageAgentsLoaded(ok)
    \/ \E k \in 1..Len(writes) : WriteResponds(k, TRUE)

\* C2 as stated: at most one appointment list fetch is in flight at any time
C2_OneListFetchInFlight == ListFetchesInFlight <= 1

\* C2, for the page's own fetch: the loading flag is set exactly while a fetch
\* of fetchAllAppointments is pending, and a list requested by the page while
\* it is set is dropped: no request is sent and the pending fetch goes on
C2_PageFetchSingleFlight ==
    [][/\ loading' <=> (fetch'.pc # "idle")
       /\ (loading /\ FetchRequested) => (sent' = 0 /\ fetch' = fetch /\ loading')]_vars

\* a create succeeded while the first fetch was pending, and the list it asked
\* for was dropped
C2_Witness ==
    /\ loading /\ fetch = CallStart
    /\ nWrites = 1 /\ writes = <<>> /\ store \notin InitialStores
    /\ sent = 0

\* C3: every create or update that succeeds starts a fetch of the list
C3_WriteThenRefetch ==
    [][(\E k \in 1..Len(writes) : WriteResponds(k, TRUE))
          => (sent' = 1 /\ fetch' = CallStart /\ loading')]_vars

PageOrFilterChange ==
    \/ \E p \in 1..MaxPage : OnPageChange(p)
    \/ UpdateFilter(filters')
    \/ SearchTimeoutFires
    \/ ClearFilters

Passes(item, f) ==
    /\ f.status # AllStatuses => MatchesStatus(item, f)
    /\ Len(f.agentIds) > 0 => MatchesAgents(item, SelectedAgentNames(f, applied.agents))
    /\ NonEmpty(f.query) => MatchesQuery(item, f.query)
    /\ (NonEmpty(f.from) \/ NonEmpty(f.to)) => MatchesRange(item, f, tz)

\* C6: totalItems is the number of cached appointments that pass the filters
\* of the last recomputation, totalPages is ceil(totalItems / 10), neither is
\* negative, and both are 0 when the cache is empty
C6_Totals ==
    /\ totalItems = Cardinality({i \in 1..Len(allAppointments) :
                                    Passes(allAppointments[i], applied.filters)})
    /\ totalPages * 10 >= totalItems
    /\ (totalPages - 1) * 10 < totalItems
    /\ totalItems >= 0 /\ totalPages >= 0
    /\ allAppointments = <<>> => (totalItems = 0 /\ totalPages = 0)

\* two of the cached appointments pass the status filter: one page
C6_Witness ==
    /\ applied.filters.status = "Cancelled"
    /\ Len(allAppointments) = NBig
    /\ totalItems = 2 /\ totalPages = 1

\* C7: the visible items are the elements at positions (p-1)*10 .. (p-1)*10+9
\* of the filtered and sorted list, min(10, max(0, totalItems - (p-1)*10)) of
\* them, and none when p is beyond totalPages
C7_PageSlice ==
    LET list == FilteredItems(allAppointments, applied.filters, applied.agents, tz)
        first == (currentPage - 1) * 10
    IN  /\ totalItems = Len(list)
        /\ Len(appointments) = Min(10, Max(0, totalItems - first))
        /\ \A k \in 1..Len(appointments) : appointments[k] = list[first + k]
        /\ currentPage > totalPages => appointments = <<>>

\* 12 appointments, no filters, page 2: the 11th and the 12th, of 2 pages
C7_Witness ==
    /\ Len(allAppointments) = 12 /\ applied.filters = DefaultFilters
    /\ currentPage = 2 /\ totalPages = 2 /\ totalItems = 12
    /\ appointments = SubSeq(SortByDate(allAppointments, TRUE), 11, 12)

\* only the date range is set in f
OnlyRange(f) ==
    f.status = AllStatuses /\ Len(f.agentIds) = 0 /\ ~NonEmpty(f.query)

\* 23:59:59.999 of calendar day d on the user's clock
EndOfDay(d) == d[1] * DayMs + (DayMs - 1) - tz

\* C8: with `to` set, an appointment dated 23:59:59.999 of the `to` day is
\* included and one dated 1 ms later is excluded; with `from` set, one dated
\* exactly at `from` is included and an earlier one is excluded
C8_DateRangeInclusive ==
    LET f == applied.filters
    IN  (OnlyRange(f) /\ WholeListShown) =>
            \A i \in 1..Len(allAppointments) :
                LET item == allAppointments[i]
                    d == ParseISO(item.date)
                IN  /\ (NonEmpty(f.to) /\ ~NonEmpty(f.from)) =>
                          /\ d = EndOfDay(f.to) => Visible(item)
                          /\ d = EndOfDay(f.to) + 1 => ~Visible(item)
                    /\ (NonEmpty(f.from) /\ ~NonEmpty(f.to)) =>
                          /\ d = f.from[1] * DayMs => Visible(item)
                          /\ d < f.from[1] * DayMs => ~Visible(item)

\* only the agent selection is set in f
OnlyAgents(f) ==
    f.status = AllStatuses /\ ~NonEmpty(f.query) /\ ~NonEmpty(f.from) /\ ~NonEmpty(f.to)

\* the full name of the agent the user selected in the toolbar
FullNameOfSelected(id) ==
    toolbarAgents[CHOOSE k \in 1..Len(toolbarAgents) : toolbarAgents[k].id = id].fullName

\* the name the page compares for a selected id: the full name of its agent
\* with that id, or the id when its agent list has none
ComparedName(id) ==
    IF \E k \in 1..Len(agents) : agents[k].id = id
    THEN agents[CHOOSE k \in 1..Len(agents) : agents[k].id = id].fullName
    ELSE id

\* the agent filter passes exactly the items with an agent whose name is
\* Related to Name(id) for a selected id, and passes every item when nothing
\* is selected
AgentFilterBy(Name(_)) ==
    LET f == applied.filters
    IN  (OnlyAgents(f) /\ WholeListShown) =>
            \A i \in 1..Len(allAppointments) :
                LET item == allAppointments[i]
                IN  Visible(item) <=>
                       \/ Len(f.agentIds) = 0
                       \/ \E a \in 1..Len(item.agents) : \E n \in 1..Len(f.agentIds) :
                             Related(item.agents[a].name, Name(f.agentIds[n]))

\* C9 as stated: an appointment passes iff one of its agents' names and the
\* full name of a selected agent contain one another, case-insensitively
C9_AgentFilterByFullName == AgentFilterBy(FullNameOfSelected)

\* C9, with the name the page resolves: the full name of the page's agent
\* with the selected id, or the id itself when the page's agent list lacks it
C9_AgentFilterByComparedName == AgentFilterBy(ComparedName)

\* with "Ann Lee" selected an appointment whose agent is named "ann" is shown
C9_Witness ==
    /\ applied.filters.agentIds = <<AgentId1>> /\ OnlyAgents(applied.filters)
    /\ ComparedName(AgentId1) = sAnnLee
    /\ \E j \in 1..Len(appointments) :
          Len(appointments[j].agents) = 1 /\ appointments[j].agents[1].name = sAnn

\* only the text query is set in f
OnlyQuery(f) ==
    /\ f.status = AllStatuses /\ Len(f.agentIds) = 0
    /\ ~NonEmpty(f.from) /\ ~NonEmpty(f.to)

\* C10: with a non-empty query an appointment passes iff the lower-cased query
\* is a substring of the lower-cased address, contact name, email or phone;
\* an absent email or phone never matches
C10_TextFilter ==
    LET f == applied.filters
        q == ToLowerCase(f.query)
    IN  (NonEmpty(f.query) /\ OnlyQuery(f) /\ WholeListShown) =>
            \A i \in 1..Len(allAppointments) :
                LET item == allAppointments[i]
                    email == item.contact.email
                    phone == item.contact.phone
                IN  Visible(item) <=>
                       \/ Includes(ToLowerCase(item.address), q)
                       \/ Includes(ToLowerCase(item.contact.name), q)
                       \/ (email # Undefined /\ email # <<>> /\ Includes(ToLowerCase(email), q))
                       \/ (phone # <<>> /\ Includes(ToLowerCase(phone), q))

\* the query "Oa" shows an appointment that matches by its email alone
C10_Witness ==
    /\ applied.filters.query = sQueryOa /\ OnlyQuery(applied.filters)
    /\ \E j \in 1..Len(appointments) :
          /\ appointments[j].contact.email = sMail
          /\ appointments[j].address = sElm /\ appointments[j].contact.name = sBea

\* the cached appointments that pass every active filter of the last
\* recomputation
PassingSet ==
    {allAppointments[i] : i \in {j \in 1..Len(allAppointments) :
                                    Passes(allAppointments[j], applied.filters)}}

\* the elements of a sequence
Elements(s) == {s[k] : k \in 1..Len(s)}

\* the filters of the last recomputation applied to the cache in the reverse
\* of the code's order
FilteredInReverse ==
    LET f == applied.filters
        byRange == IF NonEmpty(f.from) \/ NonEmpty(f.to)
                   THEN SelectSeq(allAppointments, LAMBDA it : MatchesRange(it, f, tz))
                   ELSE allAppointments
        byQuery == IF NonEmpty(f.query)
                   THEN SelectSeq(byRange, LAMBDA it : MatchesQuery(it, f.query))
                   ELSE byRange
        byAgent == IF Len(f.agentIds) > 0
                   THEN SelectSeq(byQuery, LAMBDA it :
                            MatchesAgents(it, SelectedAgentNames(f, applied.agents)))
                   ELSE byQuery
    IN  IF f.status # AllStatuses
        THEN SelectSeq(byAgent, LAMBDA it : MatchesStatus(it, f))
        ELSE byAgent

\* C11: the filtered set is the set of cached appointments that satisfy all
\* active predicates at once, whatever the order the filters are applied in;
\* the visible items belong to it, and are all of it when it fits the page
C11_FiltersAreConjoined ==
    LET list == FilteredItems(allAppointments, applied.filters, applied.agents, tz)
    IN  /\ Elements(list) = PassingSet
        /\ Elements(FilteredInReverse) = PassingSet
        /\ totalItems = Cardinality(PassingSet)
        /\ Elements(appointments) \subseteq PassingSet
        /\ WholeListShown => Elements(appointments) = PassingSet

\* a status and a query are both active, and each excludes an appointment the
\* other lets pass
C11_Witness ==
    LET f == applied.filters
    IN  /\ f.status = "Upcoming" /\ f.query = sQueryOa
        /\ PassingSet # {}
        /\ \E i \in 1..Len(allAppointments) :
              /\ MatchesQuery(allAppointments[i], f.query)
              /\ ~MatchesStatus(allAppointments[i], f)
        /\ \E i \in 1..Len(allAppointments) :
              /\ ~MatchesQuery(allAppointments[i], f.query)
              /\ MatchesStatus(allAppointments[i], f)

\* the dates along s do not rise (newest first) or do not fall (oldest first)
Monotone(s, newestFirst) ==
    \A k \in 1..(Len(s) - 1) :
        IF newestFirst
        THEN s[k].date[1] * DayMs + s[k].date[2] >= s[k + 1].date[1] * DayMs + s[k + 1].date[2]
        ELSE s[k].date[1] * DayMs + s[k].date[2] <= s[k + 1].date[1] * DayMs + s[k + 1].date[2]

\* C12: the filtered list is sorted by date before slicing: non-increasing
\* under date-desc, non-decreasing under date-asc, along the whole list and so
\* along the visible page, and it is a permutation of the filtered set
C12_SortedByDate ==
    LET list == FilteredItems(allAppointments, applied.filters, applied.agents, tz)
        newestFirst == applied.filters.sortBy = "date-desc"
    IN  /\ applied.filters.sortBy \in {"date-desc", "date-asc"}
        /\ Monotone(list, newestFirst)
        /\ Monotone(appointments, newestFirst)
        /\ appointments = SubSeq(list, (applied.page - 1) * 10 + 1,
                                 Min(applied.page * 10, Len(list)))
        /\ Len(list) = Cardinality(PassingSet)
        /\ Elements(list) = PassingSet

\* oldest first: the second page of 12 appointments holds the two newest
C12_Witness ==
    /\ applied.filters.sortBy = "date-asc" /\ applied.page = 2
    /\ totalItems = 12 /\ Len(appointments) = 2
    /\ ParseISO(appointments[1].date) < ParseISO(appointments[2].date)
    /\ \A i \in 1..Len(allAppointments) :
          ParseISO(allAppointments[i].date) <= ParseISO(appointments[2].date)

\* a step that runs applyFiltersAndPagination
Recomputation ==
    \/ \E p \in 1..MaxPage : OnPageChange(p)
    \/ UpdateFilter(filters')
    \/ SearchTimeoutFires
    \/ ClearFilters
    \/ (FetchResponds("ok") /\ fetch' = Idle)
    \/ (~configured /\ \E ok \in BOOLEAN : PageAgentsLoaded(ok))
    \/ (~configured /\ \E payload \in CreatePayloads : OnCreate(payload))

\* the view is what it was
SameView ==
    /\ appointments' = appointments
    /\ totalItems' = totalItems /\ totalPages' = totalPages
    /\ currentPage' = currentPage

\* C13 as stated: a recomputation with the same cached set, the same filter
\* specification and the same page as the one before yields the same view
C13_SameCacheFiltersPage ==
    [][(/\ Recomputation
        /\ allAppointments' = allAppointments
        /\ applied'.filters = applied.filters
        /\ applied'.page = applied.page) => SameView]_vars

\* C13, with every input of the engine: a recomputation with the same cached
\* set, filter specification, page and page agent list as the one before
\* yields the same view
C13_SameInputsSameView ==
    [][(/\ Recomputation
        /\ allAppointments' = allAppointments
        /\ applied'.filters = applied.filters
        /\ applied'.page = applied.page
        /\ applied'.agents = applied.agents) => SameView]_vars

\* a non-empty list has been recomputed from the same inputs as the time before
C13_Witness == applied.repeat /\ totalItems > 0 /\ Len(appointments) > 0

\* the rules of the create form on the fields and the clock of this state
CreateRulesMet ==
    /\ form.f.contactId # ""
    /\ Trim(form.f.address) # <<>>
    /\ Len(form.f.agentIds) > 0
    /\ form.f.datetime # <<>>
    /\ ParseLocal(form.f.datetime) > NowMinute

\* C14: a submit attempt on the create form emits the submit event if and
\* only if, at the moment of the attempt, a contact is selected, the address
\* is non-blank, an agent is selected and the datetime is strictly later
\* than the current time
C14_CreateEmitsIffRulesMet ==
    form.kind = "create" /\ form.attempt.made
        => (form.attempt.emitted <=> CreateRulesMet)

\* the rules of the edit form other than the one on a past date, on the
\* fields and the clock of this state
EditOtherRulesMet ==
    /\ form.f.contactId # "" \/ (form.selectedContact /\ ~form.showContactSearch)
    /\ Len(Trim(form.f.address)) >= MinAddress
    /\ Len(Trim(form.f.address)) <= MaxAddress
    /\ Len(form.f.agentIds) > 0
    /\ form.f.datetime # <<>>
    /\ ParseLocal(form.f.datetime) <= TwoYearsFromNow(NowMinute)

\* C15: on the edit form an attempt with status Upcoming emits only if the
\* datetime is strictly later than the current time at the moment of the
\* attempt, and an attempt with status Completed or Cancelled that meets the
\* other rules emits whether or not its datetime is in the past
C15_UpcomingNeedsFutureDate ==
    form.kind = "edit" /\ form.attempt.made =>
        /\ form.f.status = "Upcoming" /\ form.attempt.emitted
               => ParseLocal(form.f.datetime) > NowMinute
        /\ form.f.status \in {"Completed", "Cancelled"} /\ EditOtherRulesMet
               => form.attempt.emitted

\* C16: on the edit form, when the date field changes to a value not later
\* than now while the status is Upcoming the status becomes Completed, when
\* it changes to a value later than now while the status is Completed the
\* status becomes Upcoming, and no change of the date alters the status
\* Cancelled
C16_DateChangeAdjustsStatus ==
    form.kind = "edit" /\ form.dateChange # "" =>
        /\ form.dateChange = "Cancelled" => form.f.status = "Cancelled"
        /\ (/\ form.dateChange = "Upcoming" /\ form.f.datetime # <<>>
            /\ ParseLocal(form.f.datetime) <= NowMinute)
               => form.f.status = "Completed"
        /\ (/\ form.dateChange = "Completed" /\ form.f.datetime # <<>>
            /\ ParseLocal(form.f.datetime) > NowMinute)
               => form.f.status = "Upcoming"

C16_Witness ==
    /\ form.kind = "edit" /\ form.dateChange = "Upcoming"
    /\ form.f.datetime # <<>> /\ ParseLocal(form.f.datetime) <= NowMinute
    /\ form.f.status = "Completed"

\* C17: on either form, no submit attempt made while no agent is selected or
\* while the address is blank emits the submit event, whatever happened on
\* earlier attempts
C17_AgentAndAddressGates ==
    form.kind # "none" /\ form.attempt.made /\ form.attempt.emitted
        => Len(form.f.agentIds) > 0 /\ Trim(form.f.address) # <<>>

C17_Witness ==
    /\ form.kind # "none" /\ form.attempt.made /\ ~form.attempt.emitted
    /\ Len(form.f.agentIds) = 0 \/ Trim(form.f.address) = <<>>

\* C18: before any submit attempt on a form its error set is empty, whatever
\* the field values; errors are non-empty only after a submit attempt
C18_ErrorsSuppressedUntilSubmit ==
    form.kind # "none" /\ ~form.submitted => form.errors = {}

C18_Witness ==
    /\ form.kind # "none" /\ ~form.submitted /\ ~form.loading
    /\ Trim(form.f.address) = <<>> /\ Len(form.f.agentIds) = 0
    /\ form.f.datetime = <<>>
    /\ form.errors = {}

\* every rule of the edit form, on the fields and the clock of this state
EditRulesMet ==
    /\ EditOtherRulesMet
    /\ form.f.status = "Upcoming" => ParseLocal(form.f.datetime) > NowMinute

\* C19: the edit form rejects a submission whose trimmed address is shorter
\* than 5 or longer than 200 characters or whose datetime is more than two
\* years after the current time, and a submission that meets every rule is
\* not rejected, in particular one with an address of exactly 5 or 200
\* characters or a datetime exactly two years ahead
C19_AddressAndHorizonBounds ==
    form.kind = "edit" /\ form.attempt.made =>
        /\ (\/ Len(Trim(form.f.address)) < 5
            \/ Len(Trim(form.f.address)) > 200
            \/ /\ form.f.datetime # <<>>
               /\ ParseLocal(form.f.datetime) > NowMinute + 2 * 365 * 24 * 60)
               => ~form.attempt.emitted
        /\ EditRulesMet => form.attempt.emitted

C19_Witness ==
    /\ form.kind = "edit" /\ form.attempt.made /\ form.attempt.emitted
    /\ Len(Trim(form.f.address)) = 200
    /\ ParseLocal(form.f.datetime) = NowMinute + 2 * 365 * 24 * 60

\* C20: when a create succeeds, the status derived at the same instant from
\* the record written to the store (cancelled flag, date of the payload) is
\* Cancelled if and only if the payload's status was Cancelled, and is
\* Upcoming for a payload with status Upcoming and a future datetime
C20_StatusRoundTrip ==
    [][\A k \in 1..Len(writes) :
          writes[k].kind = "create" /\ WriteResponds(k, TRUE) =>
              LET payload == writes[k].payload
                  written == store'[Len(store')]
              IN  /\ written.appointment_date = payload.datetime
                  /\ DeriveStatus(written, now) = "Cancelled"
                        <=> payload.status = "Cancelled"
                  /\ payload.status = "Upcoming" /\ ParseISO(payload.datetime) > now
                        => DeriveStatus(written, now) = "Upcoming"]_vars

\* a payload with status Upcoming and a future datetime was written, and the
\* fetch that followed derived Upcoming from the record
C20_Witness ==
    /\ nWrites = 1 /\ writes = <<>> /\ Len(store) = 1
    /\ Has(store[1], "is_cancelled") /\ ~store[1].is_cancelled
    /\ ParseISO(store[1].appointment_date) > now
    /\ Len(allAppointments) = 1 /\ allAppointments[1].status = "Upcoming"

\* C21: without a store identifier every list operation (listAgents of the
\* page and of the toolbar, listAppointments of the page) sends no request and
\* yields no records and no cursor, so no call stays pending; and it raises no
\* error: the fetch the page asks for completes, the view being recomputed
\* from the empty record set
C21_ListsDegradeToEmpty ==
    [][~configured =>
          /\ sent' = 0
          /\ fetch' = Idle /\ ~loading' /\ related'.calls = <<>>
          /\ agents' = <<>> /\ toolbarAgents' = <<>>
          /\ allAppointments' = <<>> /\ appointments' = <<>> /\ totalItems' = 0
          /\ ("page" \in agentsLoaded' \ agentsLoaded) =>
                 /\ applied'.filters = filters /\ applied'.page = currentPage
                 /\ applied'.repeat = (filters = applied.filters
                                        /\ currentPage = applied.page)]_vars

\* no identifier: both components have asked for their agents, the page has
\* run its fetch, which was completed at once with nothing sent, and the
\* query was then changed
C21_Witness ==
    /\ ~configured /\ agentsLoaded = {"page", "toolbar"}
    /\ applied.repeat /\ filters.query = sQueryOa
    /\ allAppointments = <<>> /\ fetch = Idle /\ ~loading /\ sent = 0

\* C22: without a store identifier a create or an update ends with an error:
\* the page takes the path of a failed write, on which the list is not asked
\* for again and the view is not recomputed
C22_WriteFailsWithoutIdentifier ==
    [][(~configured /\ nWrites' = nWrites + 1) =>
          (sent' = 0 /\ UNCHANGED <<loading, fetch, cacheVars>>)]_vars

\* C23: a failed list fetch changes nothing but the loading flag: the cache,
\* the visible items, totalItems, totalPages and currentPage are after the
\* failure what they were before it, the loading flag is false again, and the
\* next fetch the page asks for while the flag is false is started
C23_FetchFailureKeepsView ==
    [][/\ FetchResponds("error") =>
            /\ allAppointments' = allAppointments /\ appointments' = appointments
            /\ totalItems' = totalItems /\ totalPages' = totalPages
            /\ currentPage' = currentPage
            /\ ~loading' /\ fetch'.pc = "idle"
       /\ (configured /\ ~loading /\ FetchRequested) =>
            (loading' /\ fetch'.pc = "sorted" /\ fetch'.offset = 0 /\ sent' = 1)]_vars

\* the list asked for after a create has failed: the page shows the records
\* of the fetch before it, one fewer than the store holds, and is not loading
C23_Witness ==
    /\ configured /\ Len(store) = NBig + 1 /\ Len(allAppointments) = NBig
    /\ totalItems = NBig /\ Len(appointments) = PageSize
    /\ nWrites = 1 /\ writes = <<>>
    /\ fetch = Idle /\ ~loading /\ sent = 0

\* a response to the pending request of the page's listAppointments call
FetchStep == \E o \in Outcomes : FetchResponds(o)

\* C24: a request is repeated without the sort only after the sorted request
\* for the same cursor was rejected for its sort; every other failure ends the
\* call at once; and the repeated request is the last one for its cursor:
\* whatever its outcome, the call then ends or goes on to a later cursor
C24_OneRetryPerPage ==
    [][/\ (FetchStep /\ fetch'.pc = "unsorted") =>
            /\ FetchResponds("sort") /\ fetch.pc = "sorted"
            /\ fetch'.offset = fetch.offset /\ fetch'.allRecords = fetch.allRecords
            /\ fetch'.unsorted = fetch.unsorted + 1
            /\ sent' = 1
       /\ (FetchResponds("error") \/ (FetchResponds("sort") /\ fetch.pc = "unsorted")) =>
            (fetch'.pc = "idle" /\ ~loading' /\ sent' = 0)
       /\ (FetchStep /\ fetch.pc = "unsorted") =>
            \/ fetch'.pc = "idle" /\ sent' = 0
            \/ fetch'.pc = "sorted" /\ fetch'.offset > fetch.offset /\ sent' = 1
       /\ (FetchStep /\ fetch.pc = "sorted" /\ fetch'.pc = "sorted") =>
            (fetch'.offset > fetch.offset /\ sent' = 1)]_vars

\* the sorted request for the second page was rejected and the request is
\* pending again without the sort, with the first page kept
C24_Witness ==
    /\ fetch.pc = "unsorted" /\ fetch.offset = ServerPageSize
    /\ Len(fetch.allRecords) = ServerPageSize
    /\ loading /\ sent = 1

\* C25: within one listAppointments call at most one request is repeated
\* without the sort, however many pages the call fetches
C25_OneUnsortedRequestPerFetch == fetch.unsorted <= 1

\* the pages a call has asked for so far, the pending one included (a cursor
\* counts the records of the full pages before it)
PagesRequested(call) == IF call.pc = "idle" THEN 0 ELSE call.offset \div ServerPageSize + 1

\* C25, per page: within one listAppointments call at most one request per
\* page asked for is repeated without the sort
C25_OneUnsortedRequestPerPage == fetch.unsorted <= PagesRequested(fetch)

\* the store rejected the sort on both pages of one call: the request for the
\* second page is pending without the sort, the second such request of the call
C25_Witness ==
    /\ fetch.pc = "unsorted" /\ fetch.offset = ServerPageSize
    /\ fetch.unsorted = 2 /\ sent = 1

\* the pages of a table: one response for an empty table, else one for every
\* ServerPageSize records or part thereof
PagesOf(table) == IF table = <<>> THEN 1 ELSE (Len(table) + ServerPageSize - 1) \div ServerPageSize

\* C26: a successful response that leaves records behind it is followed by a
\* request with the cursor of the next page, the records received so far
\* being those of the pages before that cursor, in order; a successful
\* response that leaves none ends the call, after exactly as many pages as
\* the store has, and the result is the list of all records of the store in
\* page order
C26_PagesThroughWholeCollection ==
    [][FetchResponds("ok") =>
          IF fetch.offset + ServerPageSize < Len(store)
          THEN /\ fetch'.pc = "sorted" /\ loading' /\ sent' = 1
               /\ fetch'.offset = fetch.offset + ServerPageSize
               /\ fetch'.allRecords = SubSeq(store, 1, fetch.offset + ServerPageSize)
               /\ allAppointments' = allAppointments
          ELSE /\ fetch'.pc = "idle" /\ ~loading' /\ sent' = 0
               /\ PagesRequested(fetch) = PagesOf(store)
               /\ fetch.allRecords = SubSeq(store, 1, fetch.offset)
               /\ allAppointments' = ListAppointmentsItems(store, now)]_vars

\* a call on the large store has ended after its second page, with one item
\* for every record
C26_Witness ==
    /\ Len(store) = NBig /\ PagesOf(store) = 2
    /\ Len(allAppointments) = NBig
    /\ fetch = Idle /\ ~loading /\ sent = 0

\* a step that ends a listAppointments call of the page with its last page
FetchCompleted == FetchResponds("ok") /\ fetch'.pc = "idle"

\* C27: the cache changes, in content or in order, only in the step that
\* completes a successful fetch; applyFiltersAndPagination, onPageChange,
\* applyFilters, onEdit, a failed fetch and a failed create or update leave it
\* as it was, and so does every other handler
C27_CacheWrittenByFetchOnly ==
    [][/\ allAppointments' # allAppointments => FetchCompleted
       /\ (\/ \E p \in 1..MaxPage : OnPageChange(p)
           \/ UpdateFilter(filters')
           \/ OnEdit(1)
           \/ FetchResponds("error")
           \/ \E k \in 1..Len(writes) : WriteResponds(k, FALSE))
             => allAppointments' = allAppointments]_vars

\* an update has failed while the Cancelled filter was on and the edit form
\* stays open: the cache still holds the records of the fetch before it
C27_Witness ==
    /\ editing # <<>> /\ nWrites = 1 /\ writes = <<>> /\ store = BigStore(NBig)
    /\ filters.status = "Cancelled" /\ applied.filters.status = "Cancelled"
    /\ allAppointments = ListAppointmentsItems(BigStore(NBig), now)
    /\ fetch = Idle /\ sent = 0

ViewIs(cache, f, ags, page, shown, nItems, nPages) ==
    LET items == FilteredItems(cache, f, ags, tz)
    IN  /\ nItems = Len(items)
        /\ nPages = (Len(items) + 9) \div 10
        /\ shown = SubSeq(items, Min((page - 1) * 10 + 1, Len(items) + 1),
                          Min(page * 10, Len(items)))

\* the view is the engine's result for the state as it is now
ViewConsistent ==
    ViewIs(allAppointments, filters, agents, currentPage, appointments, totalItems,
           totalPages)

\* a step in which the toolbar's search event is handled
SearchFires ==
    \/ UpdateFilter(filters')
    \/ ClearFilters
    \/ SearchTimeoutFires

\* C29: every step that handles the search event (at once for a status,
\* agent, date or clear-all change, on the timer for the query) leaves the
\* view equal to the engine's result for the current cache and the current
\* filters; and whenever a timer is pending (after a change of the query, or
\* a burst of them) a state follows where none is pending and the view is so
C29_ViewFollowsFilters ==
    /\ [][SearchFires => ViewIs(allAppointments', filters', agents', currentPage',
                                appointments', totalItems', totalPages')]_vars
    /\ (searchTimeout ~> (~searchTimeout /\ ViewConsistent))

\* the query was typed and its timer has fired: the 8 items that match it
\* are counted and page 1 of them is shown
C29_Witness ==
    /\ filters.query = sQueryOa /\ applied.filters.query = sQueryOa
    /\ ~searchTimeout /\ ViewConsistent
    /\ Len(allAppointments) = NBig /\ totalItems = 8 /\ currentPage = 1

\* C30: an edit form submitted with the date field as the form filled it in
\* when it was opened emits a datetime that denotes the minute of the
\* appointment's stored date, in every zone
C30_EditKeepsInstant ==
    (/\ form.kind = "edit" /\ form.attempt.made /\ form.attempt.emitted
     /\ form.f.datetime = <<ParseISOMinute(editing[1].date)>>)
        => ParseISOMinute(form.attempt.payload[2].datetime)
              = ParseISOMinute(editing[1].date)

====
